---------------------------- MODULE Spec2Model ----------------------------
(***************************************************************************)
(* Model of the signal scoring pipeline of put-flow-viewer                 *)
(* (src/signals.js, loadSignals): raw records of positions.json are        *)
(* filtered to the active valid positions, grouped by ticker, gated by     *)
(* the eligibility criteria, scored, sorted, capped and badged.            *)
(*                                                                         *)
(* Representation.                                                         *)
(*  - A JavaScript value that may be null, NaN or a number is a pair       *)
(*    <<tag, v>>: Null, NaN or Num(v).                                     *)
(*  - A calendar day is an integer day number. A Date object made by       *)
(*    new Date(y, m, d) is local midnight of its day; its time value       *)
(*    (what `a - b` and `a <= b` on Dates read) is Time(day), in hours:    *)
(*    86_400_000 ms are HoursPerDay hours. In a zone that observes         *)
(*    daylight saving time, local midnights are not always 24 h apart.     *)
(*  - Premiums are in cents. Scores are in quarter points (score * 4):     *)
(*    every weight is a multiple of 0.5 and the bonus is 1.5, so all       *)
(*    scores are multiples of 0.25 and the floating point arithmetic of    *)
(*    the code is exact on them.                                           *)
(*  - A symbol is a sequence of characters, a ticker key is the trimmed    *)
(*    and upper-cased sequence.                                            *)
(***************************************************************************)
EXTENDS Integers, Sequences, FiniteSets, TLC

VARIABLES
    tz,         \* the time zone of the browser: its daylight saving rule
    today,      \* the calendar day of `new Date()` at the call
    file,       \* the fetch of ./positions.json: [ok, all], all the entries
    pc,         \* where the call of loadSignals is
    result,     \* what loadSignals returned (capped, with its two counts)
    grid,       \* the content of #signals-grid
    scored,     \* the array `signals` of loadSignals when its scoring loop ends
    ranked,     \* the same array when loadSignals returns
    sigStatus,  \* the element #sig-status: its text, class and hidden flag
    signalMap,  \* the keys of the map signalMap
    cardEls,    \* for each card of the grid: its AI button and its result element
    config,     \* CONFIG: its ANTHROPIC_KEY
    aiCache,    \* the map aiCache: analysis text of a ticker
    aiCalls,    \* for each card: where its call of fetchAiAnalysis is
    aiRequests, \* the tickers of the requests sent to the API, in order
    request,    \* the request the proxy worker was called with
    env,        \* the environment of the worker: its secret ANTHROPIC_API_KEY
    wpc,        \* where the call of the worker's fetch handler is
    upstreamCalls,  \* the requests the worker has sent to the Anthropic API
    response,   \* what the handler returned
    appPc,      \* whether the DOMContentLoaded handler of app.js has run
    tickerInput,    \* the value of #ticker-input
    urlHash,    \* location.hash without its #
    appStatus,  \* the element #status: its text, class and hidden flag
    sidebar,    \* what the sidebar shows
    chart,      \* what #chart-container holds
    loadBtn,    \* the load button: whether it is disabled
    loads       \* the calls of load, in the order they were made

pageVars == <<tz, today, file, pc, result, scored, ranked, grid, sigStatus, signalMap, cardEls>>
aiVars == <<config, aiCache, aiCalls, aiRequests>>
workerVars == <<request, env, wpc, upstreamCalls, response>>
appVars == <<appPc, tickerInput, urlHash, appStatus, sidebar, chart, loadBtn, loads>>
vars == <<pageVars, aiVars, workerVars, appVars>>

----------------------------------------------------------------------------
(* JavaScript values *)

Null == <<"null", 0>>
NaN == <<"nan", 0>>
Num(v) == <<"num", v>>
IsNum(x) == x[1] = "num"

\* a ?? b
Coalesce(a, b) == IF a = Null THEN b ELSE a

\* parseInt / parseFloat of a field: a number (or numeric string) parses to
\* itself, null and any other string to NaN.
ParseNumber(x) == IF IsNum(x) THEN x ELSE NaN

\* isFinite(x)
IsFinite(x) == IsNum(x)

Min(a, b) == IF a <= b THEN a ELSE b
Max(a, b) == IF a >= b THEN a ELSE b
Abs(a) == IF a < 0 THEN -a ELSE a

\* Math.floor(a / b) and Math.ceil(a / b) for b > 0 (\div rounds down)
FloorDiv(a, b) == a \div b
CeilDiv(a, b) == -((-a) \div b)

----------------------------------------------------------------------------
(* Dates *)

HoursPerDay == 24

\* The hours by which local time is ahead of standard time at local midnight
\* of day d. In a zone with daylight saving time the clocks go forward
\* during day tz.spring and back during day tz.fall of every 365-day year, so
\* the midnights of the days spring+1 .. fall are in daylight saving time.
DstShift(d) ==
    IF tz.dst /\ ((d - tz.spring) % 365) \in 1..(tz.fall - tz.spring) THEN 1 ELSE 0

\* The time value of new Date(y, m, d): local midnight of day d.
Time(d) == HoursPerDay * d - DstShift(d)

\* parseDate(raw): null for null and for an unparseable string, else the Date
\* at local midnight of the day the string names, in any of the three shapes.
\* A Date is <<"date", day>>.
ParseDate(raw) ==
    CASE raw = Null -> Null
      [] raw[1] = "mdy" -> <<"date", raw[2]>>
      [] raw[1] = "iso" -> <<"date", raw[2]>>
      [] raw[1] = "other" -> <<"date", raw[2]>>
      [] OTHER -> Null

IsDate(x) == x[1] = "date"
TimeOf(date) == Time(date[2])
\* d.toDateString(): names the calendar day
DateString(date) == date[2]


----------------------------------------------------------------------------
(* Strings: a string is a sequence of characters *)

IsNull(x) == x[1] = "null"
Str(chars) == <<"str", chars>>

LowerChars == <<"a", "b", "c", "l", "p", "t", "u">>
UpperChars == <<"A", "B", "C", "L", "P", "T", "U">>
Digits == <<"0", "1", "2", "3", "4", "5", "6", "7", "8", "9">>

IndexIn(c, s) == IF \E i \in 1..Len(s) : s[i] = c
                 THEN CHOOSE i \in 1..Len(s) : s[i] = c
                 ELSE 0

UpperChar(c) == IF IndexIn(c, LowerChars) > 0 THEN UpperChars[IndexIn(c, LowerChars)] ELSE c
LowerChar(c) == IF IndexIn(c, UpperChars) > 0 THEN LowerChars[IndexIn(c, UpperChars)] ELSE c

\* s.toUpperCase(), s.toLowerCase()
ToUpperCase(s) == [i \in 1..Len(s) |-> UpperChar(s[i])]
ToLowerCase(s) == [i \in 1..Len(s) |-> LowerChar(s[i])]

\* s.trim(): without its leading and trailing blanks
Trim(s) ==
    LET nonBlank == {i \in 1..Len(s) : s[i] # " "}
    IN IF nonBlank = {} THEN <<>>
       ELSE LET lo == CHOOSE i \in nonBlank : \A j \in nonBlank : i <= j
                hi == CHOOSE i \in nonBlank : \A j \in nonBlank : i >= j
            IN SubSeq(s, lo, hi)

\* String(p.symbol ?? '').trim().toUpperCase()
TickerKey(p) == ToUpperCase(Trim(IF IsNull(p.symbol) THEN <<>> ELSE p.symbol[2]))

\* The test without toLowerCase
IsCall_ExactCase(p) ==
    (IF IsNull(p.type) THEN <<"p", "u", "t">> ELSE p.type[2]) = <<"c", "a", "l", "l">>

\* (p.type ?? 'put').toLowerCase() === 'call'
IsCall(p) ==
    ToLowerCase(IF IsNull(p.type) THEN <<"p", "u", "t">> ELSE p.type[2]) = <<"c", "a", "l", "l">>

----------------------------------------------------------------------------
(* The filter to the active valid positions *)

\* parseInt(p.contracts)
ParseInt(x) == IF IsNum(x) THEN x ELSE NaN

ResolvedPremium_FirstFinite(p) ==
    IF IsNum(p.original_premium) THEN p.original_premium
    ELSE IF IsNum(p.current_premium) THEN p.current_premium
    ELSE ParseNumber(p.premium)

\* parseFloat(p.original_premium ?? p.current_premium ?? p.premium)
ResolvedPremium(p) ==
    ParseNumber(Coalesce(Coalesce(p.original_premium, p.current_premium), p.premium))

IsActive_StrikeTest(p) ==
    LET expiry == ParseDate(p.expiry)
        tradeDate == ParseDate(p.trade_date)
        orig == ResolvedPremium(p)
        contracts == ParseInt(p.contracts)
        strike == ParseNumber(p.strike)
    IN /\ IsDate(expiry) /\ IsDate(tradeDate)
       /\ TimeOf(expiry) >= Time(today)
       /\ TimeOf(expiry) > TimeOf(tradeDate)
       /\ IsFinite(orig)
       /\ IsFinite(contracts) /\ contracts[2] > 0
       /\ IsFinite(strike) /\ strike[2] > 0

IsActive_NoExpiryTest(p) ==
    LET expiry == ParseDate(p.expiry)
        tradeDate == ParseDate(p.trade_date)
        orig == ResolvedPremium(p)
        contracts == ParseInt(p.contracts)
    IN /\ IsDate(expiry) /\ IsDate(tradeDate)
       /\ TimeOf(expiry) > TimeOf(tradeDate)
       /\ IsFinite(orig)
       /\ IsFinite(contracts) /\ contracts[2] > 0

IsActive_NoOrderTest(p) ==
    LET expiry == ParseDate(p.expiry)
        tradeDate == ParseDate(p.trade_date)
        orig == ResolvedPremium(p)
        contracts == ParseInt(p.contracts)
    IN /\ IsDate(expiry) /\ IsDate(tradeDate)
       /\ TimeOf(expiry) >= Time(today)
       /\ IsFinite(orig)
       /\ IsFinite(contracts) /\ contracts[2] > 0

\* The predicate of all.filter(...)
IsActive(p) ==
    LET expiry == ParseDate(p.expiry)
        tradeDate == ParseDate(p.trade_date)
        orig == ResolvedPremium(p)
        contracts == ParseInt(p.contracts)
    IN /\ IsDate(expiry) /\ IsDate(tradeDate)
       /\ TimeOf(expiry) >= Time(today)
       /\ TimeOf(expiry) > TimeOf(tradeDate)
       /\ IsFinite(orig)
       /\ IsFinite(contracts) /\ contracts[2] > 0

ActivePositions(all) == SelectSeq(all, IsActive)

\* A null entry of the array (an object is a record of its fields)
NullEntry == [null |-> TRUE]
IsNullEntry(p) == "null" \in DOMAIN p

\* p.expiry in the filter throws a TypeError when p is null
FilterThrows(all) == \E i \in 1..Len(all) : IsNullEntry(all[i])

\* (p.type ?? 'put').toLowerCase() throws a TypeError when p.type is neither
\* null nor a string; the line is reached by the active positions whose
\* symbol is not blank.
TypeTestThrows(p) ==
    /\ TickerKey(p) # <<>>
    /\ ~IsNull(p.type)
    /\ p.type[1] # "str"

\* Whether loadSignals throws after the file was read
LoadSignalsThrows(all) ==
    IF FilterThrows(all) THEN TRUE
    ELSE \E i \in 1..Len(all) : IsActive(all[i]) /\ TypeTestThrows(all[i])

----------------------------------------------------------------------------
(* Grouping by ticker *)

PushPosition_NoElse(groups, i, p) ==
    IF IsCall(p)
    THEN [groups EXCEPT ![i].calls = Append(@, p), ![i].puts = Append(@, p)]
    ELSE [groups EXCEPT ![i].puts = Append(@, p)]

\* The if / else that pushes p to the calls or to the puts of group i
PushPosition(groups, i, p) ==
    IF IsCall(p)
    THEN [groups EXCEPT ![i].calls = Append(@, p)]
    ELSE [groups EXCEPT ![i].puts = Append(@, p)]

AddPosition_Reset(before, p) ==
    LET sym == TickerKey(p)
        at == {i \in 1..Len(before) : before[i].key = sym}
        empty == [key |-> sym, puts |-> <<>>, calls |-> <<>>]
    IN IF sym = <<>> THEN before
       ELSE LET groups == IF at = {}
                          THEN Append(before, empty)
                          ELSE [i \in 1..Len(before) |-> IF i \in at THEN empty ELSE before[i]]
                i == CHOOSE k \in 1..Len(groups) : groups[k].key = sym
            IN PushPosition(groups, i, p)

\* The body of the loop over the active positions: p is skipped when its
\* symbol is blank, else its group is created if it is new and p is pushed.
\* byTicker is a sequence of groups [key, puts, calls] in the order the keys
\* were created.
AddPosition(before, p) ==
    LET sym == TickerKey(p)
        at == {i \in 1..Len(before) : before[i].key = sym}
    IN IF sym = <<>> THEN before
       ELSE LET groups == IF at = {}
                          THEN Append(before, [key |-> sym, puts |-> <<>>, calls |-> <<>>])
                          ELSE before
                i == CHOOSE k \in 1..Len(groups) : groups[k].key = sym
            IN PushPosition(groups, i, p)

\* groups after the positions lo..hi of `active` have been added one by one,
\* the first half of them before the second
RECURSIVE AddPositions(_, _, _, _)
AddPositions(groups, active, lo, hi) ==
    IF lo > hi THEN groups
    ELSE IF lo = hi THEN AddPosition(groups, active[lo])
    ELSE LET mid == (lo + hi) \div 2
             half == AddPositions(groups, active, lo, mid)
         IN IF half = <<>>
            THEN AddPositions(<<>>, active, mid + 1, hi)
            ELSE AddPositions(half, active, mid + 1, hi)

\* byTicker after the loop over the active positions
GroupByTicker(active) == AddPositions(<<>>, active, 1, Len(active))

\* Whether a property key is an integer index: a canonical decimal numeral
\* (no sign, no leading zero). Object.entries lists these keys first.
IsIndexKey(key) ==
    /\ Len(key) > 0
    /\ \A i \in 1..Len(key) : IndexIn(key[i], Digits) > 0
    /\ (Len(key) > 1 => key[1] # "0")

RECURSIVE IndexValue(_)
IndexValue(key) ==
    IF key = <<>> THEN 0
    ELSE 10 * IndexValue(SubSeq(key, 1, Len(key) - 1)) + (IndexIn(key[Len(key)], Digits) - 1)

\* The integer-index keys among the groups at the indices S, as indices into
\* groups, in ascending numeric order of the key
RECURSIVE IndexKeysAscending(_, _)
IndexKeysAscending(groups, S) ==
    IF S = {} THEN <<>>
    ELSE LET m == CHOOSE i \in S :
                      \A j \in S : IndexValue(groups[i].key) <= IndexValue(groups[j].key)
         IN <<m>> \o IndexKeysAscending(groups, S \ {m})

\* Object.entries(byTicker): the integer-index keys in ascending numeric
\* order, then the other keys in the order they were created.
Entries(groups) ==
    LET idx == {i \in 1..Len(groups) : IsIndexKey(groups[i].key)}
        IsOther(g) == ~IsIndexKey(g.key)
        numeric == IndexKeysAscending(groups, idx)
    IN [k \in 1..Len(numeric) |-> groups[numeric[k]]] \o SelectSeq(groups, IsOther)

----------------------------------------------------------------------------
(* Eligibility of one ticker's group *)

ConfluenceWindowDays == 7
MinPutDte == 90

\* Criterion 1: puts.length && calls.length
HasBoth(g) == Len(g.puts) > 0 /\ Len(g.calls) > 0

\* Math.abs(pd - cd) of the trade dates of a put and a call
TradeGap(put, call) == Abs(TimeOf(ParseDate(put.trade_date)) - TimeOf(ParseDate(call.trade_date)))

\* The loop `outer`: some put and call have parseable trade dates whose time
\* values differ by at most 7 * 86_400_000 ms
HasConfluence(g) ==
    \E i \in 1..Len(g.puts), j \in 1..Len(g.calls) :
        /\ IsDate(ParseDate(g.puts[i].trade_date))
        /\ IsDate(ParseDate(g.calls[j].trade_date))
        /\ TradeGap(g.puts[i], g.calls[j]) <= ConfluenceWindowDays * HoursPerDay

\* allPos = [...puts, ...calls]
AllPos(g) == g.puts \o g.calls

\* Criterion 2: the set of toDateString() of the parseable trade dates
UniqueTradeDates(g) ==
    LET allPos == AllPos(g)
    IN {DateString(ParseDate(allPos[i].trade_date)) :
          i \in {k \in 1..Len(allPos) : IsDate(ParseDate(allPos[k].trade_date))}}

\* Math.floor((expiry - today) / 86_400_000)
Dte(expiry) == FloorDiv(TimeOf(expiry) - Time(today), HoursPerDay)

\* Criterion 3: puts.some(...)
Has90DtePut(g) ==
    \E i \in 1..Len(g.puts) :
        /\ IsDate(ParseDate(g.puts[i].expiry))
        /\ Dte(ParseDate(g.puts[i].expiry)) >= MinPutDte

\* The three `continue`s after criterion 1
PassesQuality(g) ==
    /\ HasConfluence(g)
    /\ Cardinality(UniqueTradeDates(g)) >= 2
    /\ Has90DtePut(g)

----------------------------------------------------------------------------
(* Scores of one ticker's group, in quarter points *)

\* parseInt(p.contracts) || 0
ContractsOf(p) == IF IsNum(ParseInt(p.contracts)) THEN ParseInt(p.contracts)[2] ELSE 0

DteWeight_Exclusive(dte) ==
    IF dte > 180 THEN 12 ELSE IF dte >= 90 THEN 8 ELSE IF dte >= 30 THEN 6 ELSE 4

\* dte >= 180 ? 3 : dte >= 90 ? 2 : dte >= 30 ? 1.5 : 1
DteWeight(dte) ==
    IF dte >= 180 THEN 12 ELSE IF dte >= 90 THEN 8 ELSE IF dte >= 30 THEN 6 ELSE 4

PremiumWeight_Inclusive(orig) ==
    IF ~IsFinite(orig) \/ orig[2] = 0 THEN 6
    ELSE IF orig[2] >= 500 THEN 8
    ELSE IF orig[2] >= 100 THEN 6
    ELSE 4

\* (!isFinite(orig) || orig === 0) ? 1.5 : orig > 5 ? 2 : orig >= 1 ? 1.5 : 1
PremiumWeight(orig) ==
    IF ~IsFinite(orig) \/ orig[2] = 0 THEN 6
    ELSE IF orig[2] > 500 THEN 8
    ELSE IF orig[2] >= 100 THEN 6
    ELSE 4

\* One turn of the loop over puts: contracts * weight
PutTerm(p) ==
    LET expiry == ParseDate(p.expiry)
        dte == IF IsDate(expiry) THEN Dte(expiry) ELSE 0
    IN ContractsOf(p) * DteWeight(dte)

\* One turn of the loop over calls: contracts * weight
CallTerm(p) == ContractsOf(p) * PremiumWeight(ResolvedPremium(p))

RECURSIVE PutScore(_)
PutScore(puts) ==
    IF puts = <<>> THEN 0
    ELSE PutScore(SubSeq(puts, 1, Len(puts) - 1)) + PutTerm(puts[Len(puts)])

RECURSIVE CallScore(_)
CallScore(calls) ==
    IF calls = <<>> THEN 0
    ELSE CallScore(SubSeq(calls, 1, Len(calls) - 1)) + CallTerm(calls[Len(calls)])

Score_NoBonus(rawScore) == rawScore

\* rawScore * confluenceBonus, the bonus being 1.5
Score(rawScore) == (rawScore * 3) \div 2

\* puts.reduce((s, p) => s + (parseInt(p.contracts) || 0), 0)
RECURSIVE TotalContracts(_)
TotalContracts(ps) ==
    IF ps = <<>> THEN 0
    ELSE TotalContracts(SubSeq(ps, 1, Len(ps) - 1)) + ContractsOf(ps[Len(ps)])

----------------------------------------------------------------------------
(* Aggregate dates of one ticker's group *)

\* new Date(Math.min(...tradeDates))
MinTradeDate(g) ==
    LET ds == UniqueTradeDates(g)
    IN <<"date", CHOOSE d \in ds : \A e \in ds : Time(d) <= Time(e)>>

\* new Date(Math.max(...expiries))
MaxExpiry(g) ==
    LET allPos == AllPos(g)
        ds == {ParseDate(allPos[i].expiry)[2] :
                 i \in {k \in 1..Len(allPos) : IsDate(ParseDate(allPos[k].expiry))}}
    IN <<"date", CHOOSE d \in ds : \A e \in ds : Time(d) >= Time(e)>>

DaysActive_NoFloor(g) == CeilDiv(Time(today) - TimeOf(MinTradeDate(g)), HoursPerDay)

\* Math.max(1, Math.ceil((today - minTradeDate) / 86_400_000))
DaysActive(g) == Max(1, CeilDiv(Time(today) - TimeOf(MinTradeDate(g)), HoursPerDay))

\* The closest-gap loops: the state <<closestGap, confluenceDate>> after the
\* first k (put, call) pairs in loop order (put-major); a gap of -1 stands
\* for Infinity.
RECURSIVE ClosestAfter(_, _)
ClosestAfter(g, k) ==
    IF k = 0 THEN <<-1, MinTradeDate(g)>>
    ELSE LET prev == ClosestAfter(g, k - 1)
             put == g.puts[((k - 1) \div Len(g.calls)) + 1]
             call == g.calls[((k - 1) % Len(g.calls)) + 1]
             pd == ParseDate(put.trade_date)
             cd == ParseDate(call.trade_date)
         IN IF ~IsDate(pd) \/ ~IsDate(cd) THEN prev
            ELSE IF prev[1] = -1 \/ TradeGap(put, call) < prev[1]
                 THEN <<TradeGap(put, call), IF TimeOf(pd) < TimeOf(cd) THEN pd ELSE cd>>
                 ELSE prev

ConfluenceDate(g) == ClosestAfter(g, Len(g.puts) * Len(g.calls))[2]

\* parsePos
ParsePos(p) ==
    [strike |-> ParseNumber(p.strike),
     expiry |-> ParseDate(p.expiry),
     contracts |-> ContractsOf(p),
     originalPremium |-> ResolvedPremium(p),
     tradeDate |-> ParseDate(p.trade_date)]

\* The object pushed to signals for a qualifying group (no badge yet)
MakeSignal(g) ==
    LET totalPuts == TotalContracts(g.puts)
        totalCalls == TotalContracts(g.calls)
        putScore == PutScore(g.puts)
        callScore == CallScore(g.calls)
        rawScore == putScore + callScore
    IN
    [ticker |-> g.key,
     totalPuts |-> totalPuts,
     totalCalls |-> totalCalls,
     totalContracts |-> totalPuts + totalCalls,
     putScore |-> putScore,
     callScore |-> callScore,
     rawScore |-> rawScore,
     putCount |-> Len(g.puts),
     callCount |-> Len(g.calls),
     daysActive |-> DaysActive(g),
     minTradeDate |-> MinTradeDate(g),
     maxExpiry |-> MaxExpiry(g),
     confluenceDate |-> ConfluenceDate(g),
     score |-> Score(rawScore),
     rawPuts |-> [i \in 1..Len(g.puts) |-> ParsePos(g.puts[i])],
     rawCalls |-> [i \in 1..Len(g.calls) |-> ParsePos(g.calls[i])],
     badge |-> "none"]

----------------------------------------------------------------------------
(* Ranking, cap and badges *)

Cap == 8
StrongThreshold == 600000      \* 150_000 points
NotableThreshold == 300000     \* 75_000 points

InsertByScore_TiesFirst(sorted, x) ==
    LET k == Cardinality({i \in 1..Len(sorted) : sorted[i].score > x.score})
    IN SubSeq(sorted, 1, k) \o <<x>> \o SubSeq(sorted, k + 1, Len(sorted))

InsertByScore_Ascending(sorted, x) ==
    LET k == Cardinality({i \in 1..Len(sorted) : sorted[i].score <= x.score})
    IN SubSeq(sorted, 1, k) \o <<x>> \o SubSeq(sorted, k + 1, Len(sorted))

\* x put into a list sorted by b.score - a.score, behind every element that
\* does not compare after it (the sort is stable)
InsertByScore(sorted, x) ==
    LET k == Cardinality({i \in 1..Len(sorted) : sorted[i].score >= x.score})
    IN SubSeq(sorted, 1, k) \o <<x>> \o SubSeq(sorted, k + 1, Len(sorted))

\* signals.sort((a, b) => b.score - a.score)
RECURSIVE SortByScore(_)
SortByScore(signals) ==
    IF signals = <<>> THEN <<>>
    ELSE InsertByScore(SortByScore(SubSeq(signals, 1, Len(signals) - 1)), signals[Len(signals)])

Slice_NoCap(signals) == signals

\* signals.slice(0, 8)
Slice(signals) == SubSeq(signals, 1, Min(Cap, Len(signals)))

Badge_StrongInclusive(score) ==
    IF score >= StrongThreshold THEN "STRONG"
    ELSE IF score > NotableThreshold THEN "NOTABLE"
    ELSE "WATCH"

Badge_NotableInclusive(score) ==
    IF score > StrongThreshold THEN "STRONG"
    ELSE IF score >= NotableThreshold THEN "NOTABLE"
    ELSE "WATCH"

\* s.score > 150_000 ? 'STRONG' : s.score > 75_000 ? 'NOTABLE' : 'WATCH'
Badge(score) ==
    IF score > StrongThreshold THEN "STRONG"
    ELSE IF score > NotableThreshold THEN "NOTABLE"
    ELSE "WATCH"

\* capped.forEach(s => { s.badge = ... })
WithBadges(capped) ==
    [i \in 1..Len(capped) |-> [capped[i] EXCEPT !.badge = Badge(capped[i].score)]]

\* The array `signals` after the loop over the tickers: one object for each
\* qualifying ticker, in the order of Object.entries
ScoredSignals(all) ==
    LET active == ActivePositions(all)
        groups == GroupByTicker(active)
        candidates == SelectSeq(Entries(groups), HasBoth)
        qualifying == SelectSeq(candidates, PassesQuality)
    IN IF active = <<>> \/ groups = <<>> \/ qualifying = <<>>
       THEN <<>>
       ELSE [i \in 1..Len(qualifying) |-> MakeSignal(qualifying[i])]

\* The array at the return with a badge on each of its objects
SignalsAtReturn_BadgeAll(pushed) == WithBadges(SortByScore(pushed))

\* The array at the return: signals.sort has reordered it, and the objects
\* that slice(0, 8) shares with `capped` have got their badge
SignalsAtReturn(pushed) ==
    LET sorted == SortByScore(pushed)
    IN WithBadges(Slice(sorted)) \o SubSeq(sorted, Cap + 1, Len(sorted))

LoadSignalsResult_CountQualified(all) ==
    LET active == ActivePositions(all)
        groups == GroupByTicker(active)
        candidates == SelectSeq(Entries(groups), HasBoth)
        qualifying == SelectSeq(candidates, PassesQuality)
        signals == SortByScore([i \in 1..Len(qualifying) |-> MakeSignal(qualifying[i])])
    IN IF active = <<>> \/ groups = <<>> \/ qualifying = <<>>
       THEN [capped |-> <<>>, qualified |-> 0, totalCandidates |-> Len(qualifying)]
       ELSE [capped |-> WithBadges(Slice(signals)),
             qualified |-> Len(signals),
             totalCandidates |-> Len(qualifying)]

\* What loadSignals returns for the records `all`: the capped list with the
\* two counts attached to it. Without an active position, a group or a
\* qualifying ticker the loops do nothing and the list is empty.
LoadSignalsResult(all) ==
    LET active == ActivePositions(all)
        groups == GroupByTicker(active)
        candidates == SelectSeq(Entries(groups), HasBoth)
        qualifying == SelectSeq(candidates, PassesQuality)
        signals == SortByScore([i \in 1..Len(qualifying) |-> MakeSignal(qualifying[i])])
    IN IF active = <<>> \/ groups = <<>> \/ qualifying = <<>>
       THEN [capped |-> <<>>, qualified |-> 0, totalCandidates |-> Len(candidates)]
       ELSE [capped |-> WithBadges(Slice(signals)),
             qualified |-> Len(signals),
             totalCandidates |-> Len(candidates)]

----------------------------------------------------------------------------
(* The records the model draws positions.json from *)

MaxLen == 3          \* records in a file of free records
MaxTickers == 9      \* tickers in a file of ticker profiles
MaxMovers == 3       \* tickers in a file of tickers with few contracts

Todays == {100}

\* A zone without daylight saving time, and a northern zone whose clocks go
\* back during day 88 and forward again during day 214 (= -151 + 365).
NoDst == [dst |-> FALSE, spring |-> 0, fall |-> 0]
Northern == [dst |-> TRUE, spring |-> -151, fall |-> 88]
Zones == {NoDst, Northern}

Rec(sym, type, expiry, tradeDate, contracts, cents) ==
    [symbol |-> Str(sym), type |-> type,
     expiry |-> expiry, trade_date |-> tradeDate,
     contracts |-> contracts,
     original_premium |-> cents, current_premium |-> Null, premium |-> Null,
     strike |-> Num(100)]

PutType == Str(<<"p", "u", "t">>)
CallType == Str(<<"c", "a", "l", "l">>)
Iso(d) == <<"iso", d>>
Mdy(d) == <<"mdy", d>>

SeqsUpTo(S, n) == UNION {[1..k -> S] : k \in 0..n}

\* Free records of one or two tickers: puts and calls traded 0, 7 or 8 days
\* apart, puts below and at 90 days to expiry, an expired record, a record
\* with an unparseable expiry and a record with a blank symbol.
EligRecords ==
    {Rec(<<"A">>, PutType, Iso(e), Iso(t), Num(5), Num(200)) : e \in {150, 190}, t \in {85, 92}}
    \cup {Rec(<<"A">>, CallType, Iso(150), Mdy(t), Num(3), Num(200)) : t \in {85, 92}}
    \cup {Rec(<<"A">>, CallType, Iso(190), Mdy(93), Num(3), Num(200))}
    \cup {Rec(<<" ", "b">>, Null, Iso(190), Iso(85), Num(5), Num(200)),
          Rec(<<"B">>, Str(<<"C", "a", "l", "l">>), Iso(150), Iso(92), Num(3), Num(200)),
          Rec(<<"A">>, PutType, Iso(99), Iso(80), Num(5), Num(200)),
          Rec(<<"A">>, CallType, <<"bad", 0>>, Iso(80), Num(3), Num(200)),
          Rec(<<" ">>, CallType, Iso(150), Iso(92), Num(3), Num(200))}

\* Free records of one ticker: puts in every bucket of days to expiry, calls
\* in every bucket of premium, and a call whose premium comes from
\* current_premium.
ScoreRecords ==
    {Rec(<<"A">>, PutType, Iso(e), Iso(85), Num(5), Num(200)) : e \in {129, 130, 190, 279, 280}}
    \cup {Rec(<<"A">>, PutType, Iso(190), Iso(85), Num(7), Num(200))}
    \cup {Rec(<<"A">>, CallType, Iso(150), Iso(90), Num(3), Num(c)) : c \in {-100, 0, 50, 100, 500, 501}}
    \cup {[Rec(<<"A">>, CallType, Iso(150), Iso(90), Num(3), Null) EXCEPT !.current_premium = Num(600)]}

\* The two positions of ticker XYZ: a put expiring in 120 days, traded 10
\* days ago, 500 contracts, and a call expiring in 60 days, traded 8 days
\* ago, 300 contracts, premium 2.00.
XYZ == <<"X", "Y", "Z">>
ExamplePut == Rec(XYZ, PutType, Iso(220), Iso(90), Num(500), Num(150))
ExampleCall == [Rec(XYZ, CallType, Iso(160), Iso(92), Num(300), Num(200)) EXCEPT !.strike = Num(110)]
NotANumber == Str(<<"n", "/", "a">>)

\* Free records of XYZ whose premium and strike fields vary: a call whose
\* original_premium is a string that is no number while its current_premium
\* is 6.00, a call whose original_premium is null while its current_premium
\* is 6.00, and puts whose strike is missing, zero or negative.
FieldRecords ==
    {ExamplePut, ExampleCall,
     [ExampleCall EXCEPT !.original_premium = NotANumber, !.current_premium = Num(600)],
     [ExampleCall EXCEPT !.original_premium = Null, !.current_premium = Num(600)],
     [ExamplePut EXCEPT !.strike = Null, !.contracts = Num(400)],
     [ExamplePut EXCEPT !.strike = Num(0), !.contracts = Num(100)],
     [ExamplePut EXCEPT !.strike = Num(-100), !.contracts = Num(200)]}

\* Free entries of which most are malformed: an unparseable expiry, an
\* unparseable trade date, an expiry on the trade date, an expiry before
\* today, no premium that is a number, zero contracts, unparseable
\* contracts, a null entry and a type that is a number.
MalformedRecords ==
    {ExamplePut, ExampleCall,
     [ExamplePut EXCEPT !.expiry = <<"bad", 0>>],
     [ExamplePut EXCEPT !.trade_date = <<"bad", 0>>],
     [ExamplePut EXCEPT !.trade_date = Iso(220)],
     [ExamplePut EXCEPT !.expiry = Iso(99), !.trade_date = Iso(80)],
     [ExamplePut EXCEPT !.original_premium = NotANumber],
     [ExampleCall EXCEPT !.contracts = Num(0)],
     [ExampleCall EXCEPT !.contracts = NotANumber],
     [ExampleCall EXCEPT !.type = Num(1)],
     NullEntry}

\* Free records of XYZ traded before today (one of them in daylight saving
\* time in the northern zone), today and after today; a put can have a call
\* five days before it and a call five days after it
DayRecords ==
    {[ExamplePut EXCEPT !.trade_date = Iso(t)] : t \in {87, 90, 100, 105}}
    \cup {[ExampleCall EXCEPT !.trade_date = Iso(t)] : t \in {85, 90, 95, 100, 105, 110}}

\* The types of a record: missing, 'call' in two letter cases, 'call'
\* followed by a blank, and also 'put' and 'cAlL'
CallLikeTypes ==
    {Null, CallType, Str(<<"C", "A", "L", "L">>), Str(<<"c", "a", "l", "l", " ">>)}
RecordTypes == CallLikeTypes \cup {PutType, Str(<<"c", "A", "l", "L">>)}

\* Free records of XYZ, all expiring in 120 days: 500 contracts traded on
\* day 90, of every type, and 300 contracts traded on day 92
TypeRecords ==
    {[ExamplePut EXCEPT !.type = t] : t \in RecordTypes}
    \cup {[ExamplePut EXCEPT !.type = t, !.trade_date = Iso(92), !.contracts = Num(300)] :
              t \in CallLikeTypes}

\* The symbols of the ticker profiles, in the order of their first records
RankSymbols ==
    <<Str(<<"B">>), Str(<<"1", "0">>), Str(<<"A">>), Str(<<"2">>), Str(<<"C">>),
      Str(<<"L">>), Str(<<"P">>), Str(<<"T">>), Str(<<"U">>), Str(<<"A", "B">>),
      Str(<<"B", "A">>), Str(<<"C", "A">>)>>

\* A ticker profile is the number of contracts of its one put (90 days to
\* expiry, weight 2); with its call of 4 contracts (premium 2.00, weight
\* 1.5) the scores are 75_000, 150_000 and 150_003 points.
ProfilePuts == <<24997, 49997, 49998>>

\* The i-th ticker of a file of profiles draws from all profiles but one
ProfileChoices(i) == {ProfilePuts[k] : k \in (1..Len(ProfilePuts)) \ {((i - 1) % Len(ProfilePuts)) + 1}}

ProfileSeqs(n) ==
    UNION {{c \in [1..k -> {ProfilePuts[j] : j \in 1..Len(ProfilePuts)}] :
              \A i \in 1..k : c[i] \in ProfileChoices(i)} : k \in 0..n}

ProfileRecords(i, putContracts) ==
    <<[Rec(<<>>, PutType, Iso(190), Iso(85), Num(putContracts), Num(200))
          EXCEPT !.symbol = RankSymbols[i]],
      [Rec(<<>>, CallType, Iso(150), Iso(90), Num(4), Num(200))
          EXCEPT !.symbol = RankSymbols[i]]>>

RECURSIVE ProfileFile(_)
ProfileFile(choice) ==
    IF choice = <<>> THEN <<>>
    ELSE ProfileFile(SubSeq(choice, 1, Len(choice) - 1))
         \o ProfileRecords(Len(choice), choice[Len(choice)])

\* Files of 0 to MaxTickers tickers that qualify, followed or not by a put
\* and a call of XYZ traded on the same day, and by a put of a ticker
\* without a call
SameDayPair ==
    <<Rec(XYZ, PutType, Iso(190), Iso(85), Num(5), Num(200)),
      Rec(XYZ, CallType, Iso(150), Iso(85), Num(4), Num(200))>>
LonePut == <<Rec(<<"Y">>, PutType, Iso(190), Iso(85), Num(5), Num(200))>>
CountFiles ==
    {ProfileFile([i \in 1..n |-> ProfilePuts[1]]) \o pair \o lone :
        n \in 0..MaxTickers, pair \in {<<>>, SameDayPair}, lone \in {<<>>, LonePut}}

\* Files of tickers with one put of 5, 6 or 8 contracts and one call each
MoverPuts == {5, 6, 8}
MoverFiles == {ProfileFile(c) : c \in SeqsUpTo(MoverPuts, MaxMovers)}

----------------------------------------------------------------------------
(* The proxy worker *)

ALLOWED_ORIGIN == "https://jumps12.github.io"
ANTHROPIC_URL == "https://api.anthropic.com/v1/messages"
ANTHROPIC_VER == "2023-06-01"

CORS_HEADERS ==
    [h \in {"Access-Control-Allow-Origin", "Access-Control-Allow-Methods",
            "Access-Control-Allow-Headers"} |->
        CASE h = "Access-Control-Allow-Origin" -> ALLOWED_ORIGIN
          [] h = "Access-Control-Allow-Methods" -> "POST, OPTIONS"
          [] OTHER -> "Content-Type"]

\* { ...CORS_HEADERS, 'Content-Type': 'application/json' }
JsonHeaders ==
    [h \in DOMAIN CORS_HEADERS \cup {"Content-Type"} |->
        IF h = "Content-Type" THEN "application/json" ELSE CORS_HEADERS[h]]

\* A response: its status, its body (the pieces of its text) and its headers
Response(status, body, headers) == [status |-> status, body |-> body, headers |-> headers]

\* JSON.parse(body) returns: the texts of the model that are JSON
ValidJson == {"{\"model\":\"m\",\"messages\":[]}", "1"}

NoRefusal == Response(0, <<>>, CORS_HEADERS)

\* The handler without its test of the origin
Refusal_NoOriginTest(req, e) ==
    IF req.method = "OPTIONS" THEN Response(204, <<>>, CORS_HEADERS)
    ELSE IF req.method # "POST" THEN Response(405, <<"Method not allowed">>, CORS_HEADERS)
    ELSE IF req.body \notin ValidJson
    THEN Response(400, <<"{\"error\":\"Invalid JSON body\"}">>, JsonHeaders)
    ELSE IF e.ANTHROPIC_API_KEY \in {Null, Str("")}
    THEN Response(500, <<"{\"error\":\"ANTHROPIC_API_KEY not configured\"}">>, JsonHeaders)
    ELSE NoRefusal

\* The response of the handler to a request it does not forward, NoRefusal
\* for a request it forwards: the tests of the method, of the Origin header
\* (?? '' for a missing header), of the body and of the secret, in this order
Refusal(req, e) ==
    IF req.method = "OPTIONS" THEN Response(204, <<>>, CORS_HEADERS)
    ELSE IF req.method # "POST" THEN Response(405, <<"Method not allowed">>, CORS_HEADERS)
    ELSE IF (IF IsNull(req.origin) THEN "" ELSE req.origin[2]) # ALLOWED_ORIGIN
    THEN Response(403, <<"Forbidden">>, CORS_HEADERS)
    ELSE IF req.body \notin ValidJson
    THEN Response(400, <<"{\"error\":\"Invalid JSON body\"}">>, JsonHeaders)
    ELSE IF e.ANTHROPIC_API_KEY \in {Null, Str("")}
    THEN Response(500, <<"{\"error\":\"ANTHROPIC_API_KEY not configured\"}">>, JsonHeaders)
    ELSE NoRefusal

\* The request the handler sends to the Anthropic API
UpstreamRequest(req, e) ==
    [url |-> ANTHROPIC_URL,
     method |-> "POST",
     headers |-> [h \in {"Content-Type", "x-api-key", "anthropic-version"} |->
                     CASE h = "Content-Type" -> "application/json"
                       [] h = "x-api-key" -> e.ANTHROPIC_API_KEY[2]
                       [] OTHER -> ANTHROPIC_VER],
     body |-> req.body]

\* The requests a client can send, and the secrets the worker can have
Methods == {"OPTIONS", "GET", "POST", "DELETE"}
Origins == {Null, Str(ALLOWED_ORIGIN), Str("https://jumps12.github.io/"), Str("https://evil.example")}
Bodies == ValidJson \cup {"", "{\"model\":"}
Requests == [method : Methods, origin : Origins, body : Bodies]
SecretKey == "sk-ant-secret"
Environments == [ANTHROPIC_API_KEY : {Null, Str(""), Str(SecretKey)}]

\* What the Anthropic API answers: a message or an error, which do not repeat
\* the headers of the request
UpstreamAnswers ==
    {[status |-> 200, body |-> "{\"content\":[{\"type\":\"text\",\"text\":\"t\"}]}"],
     [status |-> 401, body |-> "{\"type\":\"error\",\"error\":{\"type\":\"authentication_error\"}}"],
     [status |-> 529, body |-> "overloaded"]}

NoRequest == [method |-> "", origin |-> Null, body |-> ""]

\* No request has reached the worker
WorkerIdle ==
    /\ request = NoRequest
    /\ env = [ANTHROPIC_API_KEY |-> Null]
    /\ wpc = "idle"
    /\ upstreamCalls = <<>>
    /\ response = NoRefusal

----------------------------------------------------------------------------
(* The chart page *)

NoChart == [ticker |-> <<>>, complete |-> FALSE]

\* setStatus of app.js; a message is a text and the ticker it names
SetStatus(msg, cls) == [msg |-> msg, cls |-> cls, hidden |-> (msg = <<>>)]

\* load was not called and app.js has not started
AppIdle ==
    /\ appPc = "off"
    /\ tickerInput = <<>>
    /\ urlHash = <<>>
    /\ appStatus = SetStatus(<<>>, "")
    /\ sidebar = <<>>
    /\ chart = NoChart
    /\ loadBtn = FALSE
    /\ loads = <<>>

----------------------------------------------------------------------------
(* The signals page *)

NoResult == [capped |-> <<>>, qualified |-> -1, totalCandidates |-> -1]

\* The grid holds the empty state's text, or one card per signal, or nothing
NoSignalsText == "No confluence signals found"
EmptyGrid == [empty |-> "", cards |-> <<>>]

\* renderSignals: what it leaves in the grid
RenderSignals(signals) ==
    IF Len(signals) = 0
    THEN [empty |-> NoSignalsText, cards |-> <<>>]
    ELSE [empty |-> "", cards |-> [n \in 1..Len(signals) |-> signals[n].ticker]]

SetSigStatus(msg, cls) == [msg |-> msg, cls |-> cls, hidden |-> (msg = "")]

\* The AI button and the result element of a card as renderSignals writes
\* them: the button enabled, the result hidden and without a state
ButtonLabel == "AI ANALYSIS"
NewCard == [disabled |-> FALSE, label |-> ButtonLabel, hidden |-> TRUE, state |-> "none", html |-> ""]

\* No call of fetchAiAnalysis is under way for the card
NoOutcome == [kind |-> "none", value |-> ""]
NoResponse == [json |-> FALSE, ok |-> FALSE, text |-> ""]
NoCall == [stage |-> "idle", ticker |-> <<>>, response |-> NoResponse, outcome |-> NoOutcome]

\* The two messages an exception of loadSignals can carry
NotFoundMessage == "positions.json not found"
TypeErrorMessage == "TypeError"

\* Before the handler has run the grid is empty and the status is hidden; the
\* handler overwrites both on each of its paths.
PageLoading ==
    /\ pc = "loading"
    /\ result = NoResult
    /\ scored = <<>>
    /\ ranked = <<>>
    /\ grid = EmptyGrid
    /\ sigStatus = SetSigStatus("", "")
    /\ signalMap = {}
    /\ cardEls = <<>>
    /\ aiCache = <<>>
    /\ aiCalls = <<>>
    /\ aiRequests = <<>>
    /\ WorkerIdle

InitPage ==
    /\ tz \in Zones
    /\ today \in Todays
    /\ PageLoading

\* config.js as it is: CONFIG has no ANTHROPIC_KEY
InitCommon ==
    /\ InitPage
    /\ config = [ANTHROPIC_KEY |-> Null]
    /\ AppIdle

\* positions.json is missing, or holds an array with a null entry
OtherFiles == {[ok |-> FALSE, all |-> <<>>], [ok |-> TRUE, all |-> <<NullEntry>>]}

\* positions.json holds free records, or is missing
Init ==
    /\ InitCommon
    /\ file \in {[ok |-> TRUE, all |-> a] : a \in SeqsUpTo(EligRecords, MaxLen)}
                \cup OtherFiles

InitScore ==
    /\ InitCommon
    /\ file \in {[ok |-> TRUE, all |-> a] : a \in SeqsUpTo(ScoreRecords, MaxLen)}
                \cup OtherFiles

InitRank ==
    /\ InitCommon
    /\ file \in {[ok |-> TRUE, all |-> ProfileFile(c)] : c \in ProfileSeqs(MaxTickers)}
                \cup OtherFiles

InitMovers ==
    /\ InitCommon
    /\ file \in {[ok |-> TRUE, all |-> a] : a \in MoverFiles} \cup OtherFiles

InitCounts ==
    /\ InitCommon
    /\ file \in {[ok |-> TRUE, all |-> a] : a \in CountFiles} \cup OtherFiles

InitDays ==
    /\ InitCommon
    /\ file \in {[ok |-> TRUE, all |-> a] : a \in SeqsUpTo(DayRecords, MaxLen)}
                \cup OtherFiles

InitTypes ==
    /\ InitCommon
    /\ file \in {[ok |-> TRUE, all |-> a] : a \in SeqsUpTo(TypeRecords, MaxLen)}
                \cup OtherFiles

InitFields ==
    /\ InitCommon
    /\ file \in {[ok |-> TRUE, all |-> a] : a \in SeqsUpTo(FieldRecords, MaxLen)}
                \cup OtherFiles

InitMalformed ==
    /\ InitCommon
    /\ file \in {[ok |-> TRUE, all |-> a] : a \in SeqsUpTo(MalformedRecords, MaxLen)}
                \cup OtherFiles

\* res.ok is false: loadSignals throws, the handler clears the grid and shows
\* the message
LoadSignalsNotFound ==
    /\ pc = "loading"
    /\ ~file.ok
    /\ pc' = "failed"
    /\ grid' = EmptyGrid
    /\ sigStatus' = SetSigStatus(NotFoundMessage, "error")
    /\ cardEls' = <<>>
    /\ aiCalls' = <<>>
    /\ UNCHANGED <<tz, today, file, result, scored, ranked, signalMap>>
    /\ UNCHANGED <<config, aiCache, aiRequests>>
    /\ UNCHANGED <<workerVars, appVars>>

\* res.ok, and an entry makes the filter or the type test throw a TypeError
LoadSignalsTypeError ==
    /\ pc = "loading"
    /\ file.ok
    /\ LoadSignalsThrows(file.all)
    /\ pc' = "failed"
    /\ grid' = EmptyGrid
    /\ sigStatus' = SetSigStatus(TypeErrorMessage, "error")
    /\ cardEls' = <<>>
    /\ aiCalls' = <<>>
    /\ UNCHANGED <<tz, today, file, result, scored, ranked, signalMap>>
    /\ UNCHANGED <<config, aiCache, aiRequests>>
    /\ UNCHANGED <<workerVars, appVars>>

\* res.ok: the rest of loadSignals, which runs without yielding, then
\* renderSignals and setSigStatus('', '')
LoadSignals ==
    /\ pc = "loading"
    /\ file.ok
    /\ ~LoadSignalsThrows(file.all)
    /\ LET capped == LoadSignalsResult(file.all)
       IN /\ result' = capped
          /\ grid' = RenderSignals(capped.capped)
          /\ signalMap' = IF Len(capped.capped) = 0 THEN signalMap
                          ELSE {capped.capped[n].ticker : n \in 1..Len(capped.capped)}
          /\ cardEls' = [n \in 1..Len(capped.capped) |-> NewCard]
          /\ aiCalls' = [n \in 1..Len(capped.capped) |-> NoCall]
    /\ LET pushed == ScoredSignals(file.all)
       IN /\ scored' = pushed
          /\ ranked' = SignalsAtReturn(pushed)
    /\ sigStatus' = SetSigStatus("", "")
    /\ pc' = "done"
    /\ UNCHANGED <<tz, today, file>>
    /\ UNCHANGED <<config, aiCache, aiRequests>>
    /\ UNCHANGED <<workerVars, appVars>>

Next == LoadSignals \/ LoadSignalsNotFound \/ LoadSignalsTypeError

Spec == Init /\ [][Next]_vars
SpecScore == InitScore /\ [][Next]_vars
SpecRank == InitRank /\ [][Next]_vars
SpecMovers == InitMovers /\ [][Next]_vars
SpecCounts == InitCounts /\ [][Next]_vars
SpecDays == InitDays /\ [][Next]_vars
SpecTypes == InitTypes /\ [][Next]_vars
SpecFields == InitFields /\ [][Next]_vars
SpecMalformed == InitMalformed /\ [][Next]_vars

----------------------------------------------------------------------------
(* The AI analysis of a card *)

MaxAiRequests == 2

\* The value of an attribute written as data-ticker="${s.ticker}": the
\* ticker up to its first double quote
AttrValue(ticker) ==
    LET quotes == {i \in 1..Len(ticker) : ticker[i] = "\""}
    IN IF quotes = {} THEN ticker
       ELSE SubSeq(ticker, 1, (CHOOSE i \in quotes : \A j \in quotes : i <= j) - 1)

\* btn.dataset.ticker of the n-th card
DatasetTicker(n) == AttrValue(grid.cards[n])

\* What CONFIG.ANTHROPIC_KEY can be: missing, the placeholder, a key
PlaceholderKey == Str("YOUR_KEY_HERE")
AiKeys == {Null, PlaceholderKey, Str(SecretKey)}

\* What a request can be answered with: a body that is no JSON, an error
\* status with a JSON body, a JSON body without text, one of two texts
AiTexts == {"t1", "t2"}
AiResponses ==
    {[json |-> FALSE, ok |-> TRUE, text |-> ""],
     [json |-> TRUE, ok |-> FALSE, text |-> ""],
     [json |-> TRUE, ok |-> TRUE, text |-> ""]}
    \cup {[json |-> TRUE, ok |-> TRUE, text |-> t] : t \in AiTexts}

Return(text) == [kind |-> "return", value |-> text]
Throw(message) == [kind |-> "throw", value |-> message]
SendRequest == [kind |-> "request", value |-> ""]

\* fetchAiAnalysis up to its fetch: the cached text, an error, or a request
BeforeFetch(cache, map, key, ticker) ==
    IF ticker \in DOMAIN cache THEN Return(cache[ticker])
    ELSE IF ticker \notin map THEN Throw("Signal data not found")
    ELSE IF key \in {Null, Str(""), PlaceholderKey}
    THEN Throw("Set ANTHROPIC_KEY in config.js to enable AI analysis")
    ELSE SendRequest

\* fetchAiAnalysis after its fetch has resolved with the response r
AfterFetch(r) ==
    IF ~r.json THEN Throw("Non-JSON response")
    ELSE IF ~r.ok THEN Throw("Anthropic error")
    ELSE IF r.text = "" THEN Throw("Empty response from AI")
    ELSE Return(r.text)

\* aiCache set for every outcome of the call
CacheAfter_Always(cache, ticker, outcome) ==
    [k \in DOMAIN cache \cup {ticker} |-> IF k = ticker THEN outcome.value ELSE cache[k]]

\* aiCache.set(ticker, text), reached when the call returns a text
CacheAfter(cache, ticker, outcome) ==
    IF outcome.kind = "return"
    THEN [k \in DOMAIN cache \cup {ticker} |-> IF k = ticker THEN outcome.value ELSE cache[k]]
    ELSE cache

\* The card after the click that starts a call: spinner shown, button disabled
CardLoading ==
    [disabled |-> TRUE, label |-> "GENERATING", hidden |-> FALSE, state |-> "loading",
     html |-> "Analysing flow data"]

\* The handler after a failed call, leaving the button disabled
CardSettled_StaysDisabled(outcome) ==
    IF outcome.kind = "return"
    THEN [disabled |-> FALSE, label |-> "HIDE ANALYSIS", hidden |-> FALSE, state |-> "done",
          html |-> outcome.value]
    ELSE [disabled |-> TRUE, label |-> ButtonLabel, hidden |-> FALSE, state |-> "error",
          html |-> outcome.value]

\* The card after the call has settled: the text or the error message
CardSettled(outcome) ==
    IF outcome.kind = "return"
    THEN [disabled |-> FALSE, label |-> "HIDE ANALYSIS", hidden |-> FALSE, state |-> "done",
          html |-> outcome.value]
    ELSE [disabled |-> FALSE, label |-> ButtonLabel, hidden |-> FALSE, state |-> "error",
          html |-> outcome.value]

\* A call has settled and the rest of its click handler has not run yet: it
\* runs before any other event is handled
HandlerQueued == \E n \in 1..Len(aiCalls) : aiCalls[n].stage = "settled"

\* A click reaches the button: the button is not disabled
CanClick(n) ==
    /\ pc = "done"
    /\ ~HandlerQueued
    /\ ~cardEls[n].disabled

ResultIsShown(n) == ~cardEls[n].hidden /\ cardEls[n].state = "done"

\* A click on the AI button while the result is shown: the result is hidden
AiHide(n) ==
    /\ CanClick(n)
    /\ ResultIsShown(n)
    /\ cardEls' = [cardEls EXCEPT ![n].hidden = TRUE, ![n].label = ButtonLabel]
    /\ UNCHANGED <<tz, today, file, pc, result, scored, ranked, grid, sigStatus, signalMap>>
    /\ UNCHANGED <<aiVars, workerVars, appVars>>

\* Any other click on the AI button: the card shows the spinner and
\* fetchAiAnalysis runs up to its fetch
AiClick(n) ==
    /\ CanClick(n)
    /\ ~ResultIsShown(n)
    /\ LET ticker == DatasetTicker(n)
           start == BeforeFetch(aiCache, signalMap, config.ANTHROPIC_KEY, ticker)
       IN IF start = SendRequest
          THEN /\ Len(aiRequests) < MaxAiRequests
               /\ aiRequests' = Append(aiRequests, ticker)
               /\ aiCalls' = [aiCalls EXCEPT ![n] =
                                 [stage |-> "fetching", ticker |-> ticker,
                                  response |-> NoResponse, outcome |-> NoOutcome]]
          ELSE /\ aiRequests' = aiRequests
               /\ aiCalls' = [aiCalls EXCEPT ![n] =
                                 [stage |-> "settled", ticker |-> ticker,
                                  response |-> NoResponse, outcome |-> start]]
    /\ cardEls' = [cardEls EXCEPT ![n] = CardLoading]
    /\ UNCHANGED <<tz, today, file, pc, result, scored, ranked, grid, sigStatus, signalMap>>
    /\ UNCHANGED <<config, aiCache>>
    /\ UNCHANGED <<workerVars, appVars>>

\* fetch rejects: fetchAiAnalysis throws a network error
AiFetchRejects(n) ==
    /\ ~HandlerQueued
    /\ aiCalls[n].stage = "fetching"
    /\ aiCalls' = [aiCalls EXCEPT ![n].stage = "settled",
                                  ![n].outcome = Throw("Network error")]
    /\ UNCHANGED <<pageVars, workerVars, appVars>>
    /\ UNCHANGED <<config, aiCache, aiRequests>>

\* fetch resolves with a response, whose body is awaited
AiFetchResolves(n) ==
    /\ ~HandlerQueued
    /\ aiCalls[n].stage = "fetching"
    /\ \E r \in AiResponses :
          aiCalls' = [aiCalls EXCEPT ![n].stage = "reading", ![n].response = r]
    /\ UNCHANGED <<pageVars, workerVars, appVars>>
    /\ UNCHANGED <<config, aiCache, aiRequests>>

\* The body was read: fetchAiAnalysis throws, or caches the text and returns
AiBodyRead(n) ==
    /\ ~HandlerQueued
    /\ aiCalls[n].stage = "reading"
    /\ LET outcome == AfterFetch(aiCalls[n].response)
       IN /\ aiCache' = CacheAfter(aiCache, aiCalls[n].ticker, outcome)
          /\ aiCalls' = [aiCalls EXCEPT ![n].stage = "settled", ![n].outcome = outcome]
    /\ UNCHANGED <<pageVars, workerVars, appVars>>
    /\ UNCHANGED <<config, aiRequests>>

\* The rest of the click handler: its try block or its catch block
AiSettles(n) ==
    /\ aiCalls[n].stage = "settled"
    /\ cardEls' = [cardEls EXCEPT ![n] = CardSettled(aiCalls[n].outcome)]
    /\ aiCalls' = [aiCalls EXCEPT ![n].stage = "idle"]
    /\ UNCHANGED <<tz, today, file, pc, result, scored, ranked, grid, sigStatus, signalMap>>
    /\ UNCHANGED <<config, aiCache, aiRequests>>
    /\ UNCHANGED <<workerVars, appVars>>

\* positions.json of the page: a put and a call of XYZ, of Q" and of ABC,
\* or no record, or one of the other files
QuoteSymbol == Str(<<"Q", "\"">>)
AbcSymbol == Str(<<"A", "B", "C">>)
AiFile ==
    <<ExamplePut, ExampleCall,
      [ExamplePut EXCEPT !.symbol = QuoteSymbol], [ExampleCall EXCEPT !.symbol = QuoteSymbol],
      [ExamplePut EXCEPT !.symbol = AbcSymbol], [ExampleCall EXCEPT !.symbol = AbcSymbol]>>

InitAi ==
    /\ InitPage
    /\ file \in {[ok |-> TRUE, all |-> AiFile], [ok |-> TRUE, all |-> <<>>]} \cup OtherFiles
    /\ config \in [ANTHROPIC_KEY : AiKeys]
    /\ AppIdle

NextAi ==
    \/ LoadSignals
    \/ LoadSignalsNotFound
    \/ LoadSignalsTypeError
    \/ \E n \in 1..Len(cardEls) : AiHide(n)
    \/ \E n \in 1..Len(cardEls) : AiClick(n)
    \/ \E n \in 1..Len(cardEls) : AiFetchRejects(n)
    \/ \E n \in 1..Len(cardEls) : AiFetchResolves(n)
    \/ \E n \in 1..Len(cardEls) : AiBodyRead(n)
    \/ \E n \in 1..Len(cardEls) : AiSettles(n)

SpecAi == InitAi /\ [][NextAi]_vars

\* The rest of a click handler whose call has settled is a queued microtask:
\* it runs. The grid has at most Cap cards.
AiSettlesCard(n) == n \in 1..Len(aiCalls) /\ AiSettles(n)
SpecAiFair == SpecAi /\ \A n \in 1..Cap : WF_vars(AiSettlesCard(n))

----------------------------------------------------------------------------
(* The chart page: the calls of load *)

MaxLoads == 2

\* A call of load: its ticker, where it is, how it ended, and the calls
\* that were awaiting their fetches when it began
LoadCall(ticker, stage, outcome, during) ==
    [ticker |-> ticker, stage |-> stage, outcome |-> outcome, during |-> during]

Fetching(i) == loads[i].stage = "fetching"

\* load(raw) up to its await, the input holding `input` at the call: a blank
\* ticker returns, another one is shown as loading and fetched
BeginLoad(raw, input) ==
    LET ticker == ToUpperCase(Trim(raw))
        during == {i \in 1..Len(loads) : Fetching(i)}
    IN /\ Len(loads) < MaxLoads
       /\ IF ticker = <<>>
          THEN /\ loads' = Append(loads, LoadCall(ticker, "returned", "blank", during))
               /\ tickerInput' = input
               /\ UNCHANGED <<urlHash, appStatus, sidebar, loadBtn>>
          ELSE /\ loads' = Append(loads, LoadCall(ticker, "fetching", "none", during))
               /\ tickerInput' = ticker
               /\ urlHash' = ticker
               /\ appStatus' = SetStatus(<<"Loading", ticker>>, "info")
               /\ sidebar' = <<"Loading">>
               /\ loadBtn' = TRUE
       /\ UNCHANGED chart

\* The DOMContentLoaded handler of app.js: the ticker of the URL hash is
\* put in the input and loaded
AppStart ==
    /\ appPc = "start"
    /\ appPc' = "ready"
    /\ IF urlHash # <<>> THEN BeginLoad(urlHash, urlHash)
       ELSE UNCHANGED <<tickerInput, urlHash, appStatus, sidebar, chart, loadBtn, loads>>
    /\ UNCHANGED <<pageVars, aiVars, workerVars>>

\* What the user types; the input handler upper-cases the value
InputTexts == {<<"a", "b", "c">>, <<" ">>}

TypeInput ==
    /\ appPc = "ready"
    /\ \E v \in InputTexts : tickerInput' = ToUpperCase(v)
    /\ UNCHANGED <<appPc, urlHash, appStatus, sidebar, chart, loadBtn, loads>>
    /\ UNCHANGED <<pageVars, aiVars, workerVars>>

\* A click on the load button, which is not disabled
ClickLoad ==
    /\ appPc = "ready"
    /\ ~loadBtn
    /\ BeginLoad(tickerInput, tickerInput)
    /\ UNCHANGED appPc
    /\ UNCHANGED <<pageVars, aiVars, workerVars>>

\* The Enter key in the input
PressEnter ==
    /\ appPc = "ready"
    /\ BeginLoad(tickerInput, tickerInput)
    /\ UNCHANGED appPc
    /\ UNCHANGED <<pageVars, aiVars, workerVars>>

\* A click on the 'View chart' link of the n-th card
ClickViewChart(n) ==
    /\ pc = "done"
    /\ BeginLoad(DatasetTicker(n), tickerInput)
    /\ UNCHANGED appPc
    /\ UNCHANGED <<pageVars, aiVars, workerVars>>

\* The catch and the finally block of load
LoadThrows(i, outcome) ==
    /\ appStatus' = SetStatus(<<outcome, loads[i].ticker>>, "error")
    /\ loadBtn' = FALSE
    /\ loads' = [loads EXCEPT ![i].stage = "ended", ![i].outcome = outcome]
    /\ UNCHANGED <<appPc, tickerInput, urlHash, sidebar>>
    /\ UNCHANGED <<pageVars, aiVars, workerVars>>

\* fetchPutFlowData or fetchOHLCV rejects
LoadFetchFails(i) ==
    /\ Fetching(i)
    /\ LoadThrows(i, "fetch failed")
    /\ UNCHANGED chart

\* Both fetches resolve, without a candle
LoadNoPriceData(i) ==
    /\ Fetching(i)
    /\ LoadThrows(i, "No price data returned for")
    /\ UNCHANGED chart

\* Both fetches resolve and buildChart throws: it has removed the chart
\* that was there and not finished the new one
LoadChartFails(i) ==
    /\ Fetching(i)
    /\ LoadThrows(i, "chart failed")
    /\ chart' = [ticker |-> loads[i].ticker, complete |-> FALSE]

\* Both fetches resolve, the chart and the sidebar are built
LoadCompletes(i) ==
    /\ Fetching(i)
    /\ chart' = [ticker |-> loads[i].ticker, complete |-> TRUE]
    /\ sidebar' = <<"positions", loads[i].ticker>>
    /\ \E hasActive \in BOOLEAN :
          appStatus' = IF hasActive THEN SetStatus(<<>>, "")
                       ELSE SetStatus(<<"No active positions on record for", loads[i].ticker>>,
                                      "warning")
    /\ loadBtn' = FALSE
    /\ loads' = [loads EXCEPT ![i].stage = "ended", ![i].outcome = "ok"]
    /\ UNCHANGED <<appPc, tickerInput, urlHash>>
    /\ UNCHANGED <<pageVars, aiVars, workerVars>>

\* positions.json of the page: a put and a call of XYZ and of ABC
AppFile ==
    <<ExamplePut, ExampleCall,
      [ExamplePut EXCEPT !.symbol = AbcSymbol], [ExampleCall EXCEPT !.symbol = AbcSymbol]>>

\* The page opens with or without a ticker in its URL hash
UrlHashes == {<<>>, <<"a", "b", "c", " ">>}

InitApp ==
    /\ tz = NoDst
    /\ today \in Todays
    /\ PageLoading
    /\ file \in {[ok |-> TRUE, all |-> AppFile]} \cup OtherFiles
    /\ config = [ANTHROPIC_KEY |-> Null]
    /\ appPc = "start"
    /\ tickerInput = <<>>
    /\ urlHash \in UrlHashes
    /\ appStatus = SetStatus(<<>>, "")
    /\ sidebar = <<>>
    /\ chart = NoChart
    /\ loadBtn = FALSE
    /\ loads = <<>>

NextApp ==
    \/ LoadSignals
    \/ LoadSignalsNotFound
    \/ LoadSignalsTypeError
    \/ AppStart
    \/ TypeInput
    \/ ClickLoad
    \/ PressEnter
    \/ \E n \in 1..Len(grid.cards) : ClickViewChart(n)
    \/ \E i \in 1..Len(loads) : LoadFetchFails(i)
    \/ \E i \in 1..Len(loads) : LoadNoPriceData(i)
    \/ \E i \in 1..Len(loads) : LoadChartFails(i)
    \/ \E i \in 1..Len(loads) : LoadCompletes(i)

SpecApp == InitApp /\ [][NextApp]_vars

----------------------------------------------------------------------------
(* The proxy worker: one call of its fetch handler *)

\* The page is not part of the worker
PageOff ==
    /\ tz = NoDst
    /\ today = 100
    /\ file = [ok |-> FALSE, all |-> <<>>]
    /\ pc = "off"
    /\ result = NoResult
    /\ scored = <<>>
    /\ ranked = <<>>
    /\ grid = EmptyGrid
    /\ sigStatus = SetSigStatus("", "")
    /\ signalMap = {}
    /\ cardEls = <<>>
    /\ config = [ANTHROPIC_KEY |-> Null]
    /\ aiCache = <<>>
    /\ aiCalls = <<>>
    /\ aiRequests = <<>>

InitWorker ==
    /\ PageOff
    /\ AppIdle
    /\ request \in Requests
    /\ env \in Environments
    /\ wpc = "received"
    /\ upstreamCalls = <<>>
    /\ response = NoRefusal

\* One of the five tests fails: the handler returns without a call upstream
WorkerRefuses ==
    /\ wpc = "received"
    /\ Refusal(request, env) # NoRefusal
    /\ response' = Refusal(request, env)
    /\ wpc' = "responded"
    /\ UNCHANGED <<request, env, upstreamCalls>>
    /\ UNCHANGED <<pageVars, aiVars, appVars>>

\* All tests pass: the handler sends the body upstream with the secret
WorkerForwards ==
    /\ wpc = "received"
    /\ Refusal(request, env) = NoRefusal
    /\ upstreamCalls' = Append(upstreamCalls, UpstreamRequest(request, env))
    /\ wpc' = "upstream"
    /\ UNCHANGED <<request, env, response>>
    /\ UNCHANGED <<pageVars, aiVars, appVars>>

\* The Anthropic API answers: the handler returns its status and its body
UpstreamResponds ==
    /\ wpc = "upstream"
    /\ \E a \in UpstreamAnswers : response' = Response(a.status, <<a.body>>, JsonHeaders)
    /\ wpc' = "responded"
    /\ UNCHANGED <<request, env, upstreamCalls>>
    /\ UNCHANGED <<pageVars, aiVars, appVars>>

\* The call upstream fails: fetch rejects and the handler throws
UpstreamFails ==
    /\ wpc = "upstream"
    /\ wpc' = "threw"
    /\ UNCHANGED <<request, env, upstreamCalls, response>>
    /\ UNCHANGED <<pageVars, aiVars, appVars>>

NextWorker == WorkerRefuses \/ WorkerForwards \/ UpstreamResponds \/ UpstreamFails

SpecWorker == InitWorker /\ [][NextWorker]_vars

----------------------------------------------------------------------------
(* What the claims speak of, read off positions.json *)

\* The indices of the active valid records of ticker k, its puts, its calls
ActiveIdx(k) ==
    {i \in 1..Len(file.all) : IsActive(file.all[i]) /\ TickerKey(file.all[i]) = k}
PutIdx(k) == {i \in ActiveIdx(k) : ~IsCall(file.all[i])}
CallIdx(k) == {i \in ActiveIdx(k) : IsCall(file.all[i])}

\* The tickers among the active valid positions
ActiveTickers ==
    {TickerKey(file.all[i]) : i \in {j \in 1..Len(file.all) : IsActive(file.all[j])}} \ {<<>>}

TradeDay(i) == ParseDate(file.all[i].trade_date)[2]
ExpiryDay(i) == ParseDate(file.all[i].expiry)[2]

\* floor((expiry - today) / 1 day) of record i
DteOf(i) == (Time(ExpiryDay(i)) - Time(today)) \div 24

OutputTickers == {result.capped[i].ticker : i \in 1..Len(result.capped)}

\* The four criteria, the window being counted in calendar days
HasPutAndCall(k) == PutIdx(k) # {} /\ CallIdx(k) # {}
WithinSevenDays(k) == \E i \in PutIdx(k), j \in CallIdx(k) : Abs(TradeDay(i) - TradeDay(j)) <= 7
TwoTradeDates(k) == Cardinality({TradeDay(i) : i \in ActiveIdx(k)}) >= 2
HasLongPut(k) == \E i \in PutIdx(k) : DteOf(i) >= 90

\* C1: when loadSignals has returned and the cap has cut nothing, a ticker of
\* the active valid positions has a signal if and only if it has a put and
\* a call, some put and call traded at most 7 days apart, at least 2
\* distinct trade dates, and a put with floor((expiry - today)/1 day) >= 90.
C1_FourCriteria ==
    (pc = "done" /\ Len(result.capped) = result.qualified) =>
        \A k \in ActiveTickers :
            k \in OutputTickers <=>
                (HasPutAndCall(k) /\ WithinSevenDays(k) /\ TwoTradeDates(k) /\ HasLongPut(k))

\* C2: a ticker whose active valid positions are all puts, or all calls, is
\* not in the output of loadSignals.
C2_ConfluenceNecessity ==
    pc = "done" =>
        \A k \in ActiveTickers : (PutIdx(k) = {} \/ CallIdx(k) = {}) => k \notin OutputTickers

\* A ticker with two puts and no call, traded on two days, one put with 90
\* days to expiry, has no signal.
C2_Witness ==
    /\ pc = "done"
    /\ \E k \in ActiveTickers :
          /\ CallIdx(k) = {} /\ Cardinality(PutIdx(k)) >= 2
          /\ TwoTradeDates(k) /\ HasLongPut(k)
          /\ k \notin OutputTickers

\* C3: a ticker with exactly one put and one call, the put with 90 days to
\* expiry, has a signal when the two trade dates are 7 calendar days apart
\* and none when they are 8 apart.
C3_WindowInclusiveAtSeven ==
    pc = "done" =>
        \A k \in ActiveTickers :
            (Cardinality(PutIdx(k)) = 1 /\ Cardinality(CallIdx(k)) = 1 /\ HasLongPut(k)) =>
                \A i \in PutIdx(k), j \in CallIdx(k) :
                    /\ Abs(TradeDay(i) - TradeDay(j)) = 7 => k \in OutputTickers
                    /\ Abs(TradeDay(i) - TradeDay(j)) = 8 => k \notin OutputTickers

----------------------------------------------------------------------------
(* Cap, order and badges *)

\* For every ticker of the active valid positions: the index of its first
\* record among them, whether it passes all eligibility criteria, and its
\* score in quarter points (1.5 times the sum of its weighted put and call
\* contracts)
TickerFacts ==
    LET active == SelectSeq(file.all, IsActive)
        keys == {TickerKey(active[i]) : i \in 1..Len(active)} \ {<<>>}
    IN {LET OfK(p) == TickerKey(p) = k
            mine == SelectSeq(active, OfK)
            IsPut(p) == ~IsCall(p)
            g == [key |-> k, puts |-> SelectSeq(mine, IsPut), calls |-> SelectSeq(mine, IsCall)]
        IN [ticker |-> k,
            first |-> CHOOSE i \in 1..Len(active) :
                          /\ TickerKey(active[i]) = k
                          /\ \A j \in 1..(i - 1) : TickerKey(active[j]) # k,
            qualified |-> HasBoth(g) /\ PassesQuality(g),
            score |-> (3 * (PutScore(g.puts) + CallScore(g.calls))) \div 2] : k \in keys}

\* The tickers that pass all eligibility criteria
QualifiedFacts == {f \in TickerFacts : f.qualified}

\* C4: the returned list has min(8, qualifiedCount) elements, qualifiedCount
\* being the number of tickers that passed all eligibility criteria.
C4_CapInvariant ==
    pc = "done" =>
        /\ result.qualified = Cardinality(QualifiedFacts)
        /\ Len(result.capped) = (IF result.qualified < 8 THEN result.qualified ELSE 8)

\* Nine tickers qualified and eight were returned
C4_Witness == pc = "done" /\ result.qualified = 9 /\ Len(result.capped) = 8

\* f1 comes before f2 in order of first appearance in the input
AppearsBefore(f1, f2) == f1.first < f2.first

\* f1 comes before f2 in the enumeration of the groups: the symbols that
\* are canonical decimal numerals first, in ascending numeric order, then
\* the other symbols in order of first appearance
EnumeratedBefore(f1, f2) ==
    \/ IsIndexKey(f1.ticker) /\ ~IsIndexKey(f2.ticker)
    \/ IsIndexKey(f1.ticker) /\ IsIndexKey(f2.ticker)
          /\ IndexValue(f1.ticker) < IndexValue(f2.ticker)
    \/ ~IsIndexKey(f1.ticker) /\ ~IsIndexKey(f2.ticker) /\ AppearsBefore(f1, f2)

Before(f1, f2, enumerated) ==
    IF enumerated THEN EnumeratedBefore(f1, f2) ELSE AppearsBefore(f1, f2)

\* The output is the first min(8, n) of the n qualifying signals in
\* descending order of score, signals of equal score in the order Before
RankedPrefix(enumerated) ==
    LET qualified == QualifiedFacts
        out == result.capped
        kept == {f \in qualified : \E i \in 1..Len(out) : out[i].ticker = f.ticker}
        place == [f \in kept |-> CHOOSE i \in 1..Len(out) : out[i].ticker = f.ticker]
    IN /\ Len(out) = (IF Cardinality(qualified) < 8 THEN Cardinality(qualified) ELSE 8)
       /\ Cardinality(kept) = Len(out)
       /\ \A f \in kept : out[place[f]].score = f.score
       /\ \A f1, f2 \in kept :
             place[f1] < place[f2] =>
                 /\ f1.score >= f2.score
                 /\ f1.score = f2.score => Before(f1, f2, enumerated)
       /\ \A f1 \in kept, f2 \in qualified \ kept :
             /\ f1.score >= f2.score
             /\ f1.score = f2.score => Before(f1, f2, enumerated)

\* C5 as stated: the output is the first min(8, n) of the n qualifying
\* signals by descending score, signals of equal score in order of first
\* appearance of their tickers in the input.
C5_TiesByFirstAppearance == pc = "done" => RankedPrefix(FALSE)

\* C5 as amended: the output is the first min(8, n) of the n qualifying
\* signals by descending score, signals of equal score in the order in
\* which the groups are enumerated: tickers that are canonical decimal
\* numerals first, in ascending numeric order, then the other tickers in
\* order of first appearance in the input.
C5_TiesByEnumeration == pc = "done" => RankedPrefix(TRUE)

\* Nine qualify, and the output holds a numeral ticker ahead of a ticker of
\* equal score that appeared earlier in the input
C5_Witness ==
    /\ pc = "done" /\ result.qualified = 9
    /\ \E i, j \in 1..Len(result.capped) :
          /\ i < j
          /\ result.capped[i].score = result.capped[j].score
          /\ IsIndexKey(result.capped[i].ticker)
          /\ \E f1, f2 \in TickerFacts :
                /\ f1.ticker = result.capped[i].ticker
                /\ f2.ticker = result.capped[j].ticker
                /\ AppearsBefore(f2, f1)

\* C6: every returned signal has exactly one badge, fixed by its own score:
\* STRONG above 150_000 points, else NOTABLE above 75_000, else WATCH.
C6_BadgeByThreshold ==
    pc = "done" =>
        \A i \in 1..Len(result.capped) :
            LET s == result.capped[i]
            IN /\ s.badge \in {"STRONG", "NOTABLE", "WATCH"}
               /\ s.badge = "STRONG" <=> s.score > 4 * 150000
               /\ s.badge = "NOTABLE" <=> (s.score <= 4 * 150000 /\ s.score > 4 * 75000)
               /\ s.badge = "WATCH" <=> s.score <= 4 * 75000

\* One batch holds a signal of exactly 150_000 points badged NOTABLE, one
\* above it badged STRONG and one badged WATCH
C6_Witness ==
    /\ pc = "done"
    /\ \E i, j, k \in 1..Len(result.capped) :
          /\ result.capped[i].score = 4 * 150000 /\ result.capped[i].badge = "NOTABLE"
          /\ result.capped[j].score > 4 * 150000 /\ result.capped[j].badge = "STRONG"
          /\ result.capped[k].badge = "WATCH"

\* C7 as stated: a signal whose score is exactly 75_000 points is badged
\* NOTABLE.
C7_NotableAt75000 ==
    pc = "done" =>
        \A i \in 1..Len(result.capped) :
            result.capped[i].score = 4 * 75000 => result.capped[i].badge = "NOTABLE"

\* C7 as amended: a signal whose score is exactly 75_000 points is badged
\* WATCH.
C7_WatchAt75000 ==
    pc = "done" =>
        \A i \in 1..Len(result.capped) :
            result.capped[i].score = 4 * 75000 => result.capped[i].badge = "WATCH"

\* A returned signal has exactly 75_000 points
C7_Witness ==
    pc = "done" /\ \E i \in 1..Len(result.capped) : result.capped[i].score = 4 * 75000

----------------------------------------------------------------------------
(* Scores *)

\* The weight of a put by its days to expiry, in quarter points: 3, 2, 1.5, 1
WeightOfDte(dte) ==
    CASE dte >= 180 -> 4 * 3
      [] dte >= 90 /\ dte < 180 -> 4 * 2
      [] dte >= 30 /\ dte < 90 -> 6
      [] dte < 30 -> 4 * 1

\* The weight of a call by its resolved premium in cents, in quarter
\* points: 1.5 for a premium that is not finite or exactly 0, else 2 above
\* 5.00, else 1.5 from 1.00, else 1
WeightOfPremium(p) ==
    IF ~IsFinite(p) \/ p[2] = 0 THEN 6
    ELSE IF p[2] > 500 THEN 4 * 2
    ELSE IF p[2] >= 100 THEN 6
    ELSE 4 * 1

\* The sum over the records at the indices S of contracts * weight
RECURSIVE SumOfPuts(_)
SumOfPuts(S) ==
    IF S = {} THEN 0
    ELSE LET i == CHOOSE x \in S : TRUE
         IN file.all[i].contracts[2] * WeightOfDte(DteOf(i)) + SumOfPuts(S \ {i})

RECURSIVE SumOfCalls(_)
SumOfCalls(S) ==
    IF S = {} THEN 0
    ELSE LET i == CHOOSE x \in S : TRUE
         IN file.all[i].contracts[2] * WeightOfPremium(ResolvedPremium(file.all[i]))
            + SumOfCalls(S \ {i})

\* C8: the putScore of every signal is the sum over the ticker's puts of
\* contracts * w(dte), dte = floor((expiry - today)/1 day), w = 3 from 180
\* days, 2 from 90, 1.5 from 30 and 1 below; calls add nothing to it.
C8_PutScore ==
    pc = "done" =>
        \A n \in 1..Len(result.capped) :
            result.capped[n].putScore = SumOfPuts(PutIdx(result.capped[n].ticker))

\* A signal with a put of exactly 180 and a put of exactly 30 days to expiry
C8_Witness ==
    /\ pc = "done"
    /\ \E n \in 1..Len(result.capped) :
          /\ \E i, j \in PutIdx(result.capped[n].ticker) : DteOf(i) = 180 /\ DteOf(j) = 30
          /\ result.capped[n].putScore = 5 * 12 + 5 * 6

\* C9: the callScore of every signal is the sum over the ticker's calls of
\* contracts * w(p), p the resolved premium, w = 1.5 for p not finite or 0,
\* else 2 for p > 5, else 1.5 for p >= 1, else 1; puts add nothing to it.
C9_CallScore ==
    pc = "done" =>
        \A n \in 1..Len(result.capped) :
            result.capped[n].callScore = SumOfCalls(CallIdx(result.capped[n].ticker))

\* A signal with a call of premium exactly 5.00 and a call of premium 0.50
C9_Witness ==
    /\ pc = "done"
    /\ \E n \in 1..Len(result.capped) :
          /\ \E i, j \in CallIdx(result.capped[n].ticker) :
                /\ ResolvedPremium(file.all[i]) = Num(500)
                /\ ResolvedPremium(file.all[j]) = Num(50)
          /\ result.capped[n].callScore = 3 * 6 + 3 * 4

\* C10: the score of every signal is 1.5 * (putScore + callScore), and of
\* two signals the one with the smaller sum has the smaller score.
C10_UniformBonus ==
    pc = "done" =>
        /\ \A n \in 1..Len(result.capped) :
              LET s == result.capped[n]
              IN s.rawScore = s.putScore + s.callScore /\ 2 * s.score = 3 * s.rawScore
        /\ \A m, n \in 1..Len(result.capped) :
              result.capped[m].rawScore < result.capped[n].rawScore
                  <=> result.capped[m].score < result.capped[n].score

\* Two signals with different sums of putScore and callScore
C10_Witness ==
    /\ pc = "done"
    /\ \E m, n \in 1..Len(result.capped) :
          result.capped[m].rawScore < result.capped[n].rawScore

----------------------------------------------------------------------------
(* The worked example, the filter and the counts *)

\* Scores are kept in quarter points
Points(n) == 4 * n

\* C11: for the file that holds the put and the call of XYZ (in either
\* order) loadSignals returns exactly one signal, with putScore 1000,
\* callScore 450, rawScore 1450, score 2175 and badge WATCH, and both counts
\* are 1.
C11_EndToEndExample ==
    (pc = "done" /\ file.all \in {<<ExamplePut, ExampleCall>>, <<ExampleCall, ExamplePut>>}) =>
        /\ Len(result.capped) = 1
        /\ result.capped[1].ticker = XYZ
        /\ result.capped[1].putScore = Points(1000)
        /\ result.capped[1].callScore = Points(450)
        /\ result.capped[1].rawScore = Points(1450)
        /\ result.capped[1].score = Points(2175)
        /\ result.capped[1].badge = "WATCH"
        /\ result.qualified = 1
        /\ result.totalCandidates = 1

\* loadSignals has returned for the file of the example, in a zone with
\* daylight saving time
C11_Witness ==
    /\ pc = "done"
    /\ tz.dst
    /\ file.all = <<ExamplePut, ExampleCall>>
    /\ Len(result.capped) = 1

\* The place of ticker k in a returned list
PlaceOf(r, k) == CHOOSE n \in 1..Len(r.capped) : r.capped[n].ticker = k

\* What loadSignals returns for the file with d more contracts in record i
Raises == {1, 2, 3}
ResultWithRaise(i, d) ==
    LoadSignalsResult([file.all EXCEPT ![i].contracts = Num(@[2] + d)])

\* Record i is an active valid put of a ticker that has a signal
IsPutOfSignal(i) ==
    /\ IsActive(file.all[i])
    /\ ~IsCall(file.all[i])
    /\ TickerKey(file.all[i]) \in OutputTickers

\* C12: when loadSignals has returned all qualifying tickers, then for the
\* same file with more contracts in one put of a ticker T that has a signal
\* it returns a strictly greater score for T, the same score for every other
\* ticker, and T before every ticker that T came before.
C12_ScoreMonotone ==
    (pc = "done" /\ Len(result.capped) = result.qualified) =>
        \A i \in 1..Len(file.all) :
            IsPutOfSignal(i) =>
                \A d \in Raises :
                    LET T == TickerKey(file.all[i])
                        after == ResultWithRaise(i, d)
                        tickersAfter == {after.capped[n].ticker : n \in 1..Len(after.capped)}
                    IN /\ tickersAfter = OutputTickers
                       /\ after.capped[PlaceOf(after, T)].score
                             > result.capped[PlaceOf(result, T)].score
                       /\ \A U \in OutputTickers \ {T} :
                             /\ after.capped[PlaceOf(after, U)].score
                                   = result.capped[PlaceOf(result, U)].score
                             /\ PlaceOf(result, T) < PlaceOf(result, U)
                                   => PlaceOf(after, T) < PlaceOf(after, U)

\* A ticker T that comes before a ticker U of equal score, and a ticker T
\* that comes behind a ticker U and before it once a put of T has more
\* contracts
C12_Witness ==
    /\ pc = "done"
    /\ \E i \in 1..Len(file.all) :
          /\ IsPutOfSignal(i)
          /\ \E U \in OutputTickers :
                /\ PlaceOf(result, U) < PlaceOf(result, TickerKey(file.all[i]))
                /\ \E d \in Raises :
                      PlaceOf(ResultWithRaise(i, d), TickerKey(file.all[i]))
                          < PlaceOf(ResultWithRaise(i, d), U)
    /\ \E m, n \in 1..Len(result.capped) :
          m < n /\ result.capped[m].score = result.capped[n].score

\* C17: _totalCandidates is the number of tickers with at least one active
\* valid put and at least one active valid call, whether or not they pass
\* the other criteria, and _qualified is the number of tickers that pass all
\* criteria, whether or not the cap cuts them.
C17_TwoCounts ==
    pc = "done" =>
        LET active == SelectSeq(file.all, IsActive)
            calls == {i \in 1..Len(active) : IsCall(active[i])}
            tickersOfPuts == {TickerKey(active[i]) : i \in (1..Len(active)) \ calls}
            tickersOfCalls == {TickerKey(active[i]) : i \in calls}
        IN /\ result.totalCandidates
                 = Cardinality((tickersOfPuts \cap tickersOfCalls) \ {<<>>})
           /\ result.qualified = Cardinality(QualifiedFacts)
           /\ result.qualified <= result.totalCandidates

\* Eleven tickers of which ten have a put and a call, nine of these pass all
\* criteria and eight are returned
C17_Witness ==
    /\ pc = "done"
    /\ Cardinality(ActiveTickers) = 11
    /\ result.totalCandidates = 10
    /\ result.qualified = 9
    /\ Len(result.capped) = 8

\* A raw date that names a calendar day, in one of the three shapes
NamesADay(raw) == raw[1] \in {"iso", "mdy", "other"}

\* The record fails validation: its expiry or its trade date names no day,
\* none of its premium fields is a number, its contracts are no number or
\* not positive, its expiry is not after its trade date, or before today
FailsValidation(p) ==
    \/ ~NamesADay(p.expiry)
    \/ ~NamesADay(p.trade_date)
    \/ ~(IsNum(p.original_premium) \/ IsNum(p.current_premium) \/ IsNum(p.premium))
    \/ ~IsNum(p.contracts)
    \/ p.contracts[2] <= 0
    \/ p.expiry[2] <= p.trade_date[2]
    \/ p.expiry[2] < today

\* The records without the i-th
Without(all, i) == SubSeq(all, 1, i - 1) \o SubSeq(all, i + 1, Len(all))

\* C14: what loadSignals returns for a file with a record that fails
\* validation is what it returns for the file without that record.
C14_DroppedRecordHasNoEffect ==
    pc = "done" =>
        \A i \in 1..Len(file.all) :
            FailsValidation(file.all[i]) =>
                result = LoadSignalsResult(Without(file.all, i))

\* The put and the call of the example with a record that fails validation:
\* the signal of the example is returned
C14_Witness ==
    /\ pc = "done"
    /\ Len(file.all) = 3
    /\ \E i \in 1..3 :
          /\ FailsValidation(file.all[i])
          /\ TickerKey(file.all[i]) = XYZ
          /\ Without(file.all, i) = <<ExamplePut, ExampleCall>>
    /\ Len(result.capped) = 1
    /\ result.capped[1].score = Points(2175)

\* The premium of a record: the first of its three premium fields that is a
\* finite number, or the first that is not null if that one is a finite
\* number; NaN if there is none
PremiumOf(p, firstFinite) ==
    LET fields == <<p.original_premium, p.current_premium, p.premium>>
        eligible == {j \in 1..3 : IF firstFinite THEN IsNum(fields[j]) ELSE fields[j] # Null}
    IN IF eligible = {} THEN NaN
       ELSE LET first == fields[CHOOSE j \in eligible : \A k \in eligible : j <= k]
            IN IF IsNum(first) THEN first ELSE NaN

RECURSIVE SumOfSeq(_)
SumOfSeq(terms) ==
    IF terms = <<>> THEN 0 ELSE terms[1] + SumOfSeq(Tail(terms))

\* The records that pass validation with the premium PremiumOf are the ones
\* loadSignals keeps: a ticker is a candidate when it has a put and a call
\* among them, and the calls of a signal are the ticker's calls among them,
\* each with the premium PremiumOf and its weight in callScore.
PremiumResolution(firstFinite) ==
    pc = "done" =>
        LET Kept(p) == ~FailsValidation(p) /\ IsNum(PremiumOf(p, firstFinite))
            kept == SelectSeq(file.all, Kept)
            callsAt == {i \in 1..Len(kept) : IsCall(kept[i])}
            tickersOfPuts == {TickerKey(kept[i]) : i \in (1..Len(kept)) \ callsAt}
            tickersOfCalls == {TickerKey(kept[i]) : i \in callsAt}
        IN /\ result.totalCandidates
                 = Cardinality((tickersOfPuts \cap tickersOfCalls) \ {<<>>})
           /\ \A n \in 1..Len(result.capped) :
                 LET s == result.capped[n]
                     IsCallOfS(p) == IsCall(p) /\ TickerKey(p) = s.ticker
                     calls == SelectSeq(kept, IsCallOfS)
                 IN /\ s.callCount = Len(calls)
                    /\ Len(s.rawCalls) = Len(calls)
                    /\ \A j \in 1..Len(calls) :
                          s.rawCalls[j].originalPremium = PremiumOf(calls[j], firstFinite)
                    /\ s.callScore
                          = SumOfSeq([j \in 1..Len(calls) |->
                                calls[j].contracts[2]
                                    * WeightOfPremium(PremiumOf(calls[j], firstFinite))])

\* C16 as stated: the premium of a record is the first finite value among
\* original_premium, current_premium and premium, for the filter and for the
\* weight of a call.
C16_FirstFinitePremium == PremiumResolution(TRUE)

\* C16: the premium of a record is the first value among original_premium,
\* current_premium and premium that is not null, parsed as a number: a record
\* whose original_premium is null uses the later value, a record whose
\* original_premium is present and no finite number is dropped.
C16_FirstPresentPremium == PremiumResolution(FALSE)

\* The put of the example, a call whose original_premium is no number and a
\* call whose original_premium is null, both with a current_premium of 6.00:
\* the signal has the second call only, with weight 2
C16_Witness ==
    /\ pc = "done"
    /\ \E i, j \in 1..Len(file.all) :
          /\ file.all[i].original_premium = NotANumber
          /\ file.all[i].current_premium = Num(600)
          /\ file.all[j].original_premium = Null
          /\ file.all[j].current_premium = Num(600)
    /\ Len(result.capped) = 1
    /\ result.capped[1].callCount = 1
    /\ result.capped[1].rawCalls[1].originalPremium = Num(600)
    /\ result.capped[1].callScore = Points(600)

\* C15: whatever the entries of the array are (null entries, a type that is
\* no string), loadSignals completes and returns a list: once the file was
\* read the call does not fail.
C15_NeverThrows == file.ok => pc # "failed"

----------------------------------------------------------------------------
(* Grouping and the positions of a signal *)

\* C18: the groups of the active valid positions are one per distinct
\* trimmed, upper-cased symbol that is not blank; the puts and the calls of
\* a group are the positions of that symbol that are no calls, and that are
\* calls, in input order; no two signals have the same ticker, and a signal
\* lists the puts and the calls of its group.
C18_GroupingIsPartition ==
    pc = "done" =>
        LET active == SelectSeq(file.all, IsActive)
            groups == GroupByTicker(active)
            keys == {TickerKey(active[i]) : i \in 1..Len(active)} \ {<<>>}
        IN /\ Len(groups) = Cardinality(keys)
           /\ {groups[n].key : n \in 1..Len(groups)} = keys
           /\ \A n \in 1..Len(groups) :
                 LET IsPutOfGroup(p) == TickerKey(p) = groups[n].key /\ ~IsCall(p)
                     IsCallOfGroup(p) == TickerKey(p) = groups[n].key /\ IsCall(p)
                 IN /\ groups[n].puts = SelectSeq(active, IsPutOfGroup)
                    /\ groups[n].calls = SelectSeq(active, IsCallOfGroup)
           /\ \A m, n \in 1..Len(result.capped) :
                 result.capped[m].ticker = result.capped[n].ticker => m = n
           /\ \A m \in 1..Len(result.capped) :
                 \E n \in 1..Len(groups) :
                    /\ groups[n].key = result.capped[m].ticker
                    /\ result.capped[m].putCount = Len(groups[n].puts)
                    /\ result.capped[m].callCount = Len(groups[n].calls)

\* A put with symbol " b" and no type, a call with symbol "B" and type
\* "Call" and a call with a blank symbol: one signal, of B, with one put
\* and one call
C18_Witness ==
    /\ pc = "done"
    /\ Len(file.all) = 3
    /\ \A i \in 1..3 : IsActive(file.all[i])
    /\ {file.all[i].symbol : i \in 1..3} = {Str(<<" ", "b">>), Str(<<"B">>), Str(<<" ">>)}
    /\ Len(result.capped) = 1
    /\ result.capped[1].ticker = <<"B">>
    /\ result.capped[1].putCount = 1
    /\ result.capped[1].callCount = 1

\* The positions listed in the signals of the result
ListedPositions ==
    UNION {{result.capped[n].rawPuts[j] : j \in 1..Len(result.capped[n].rawPuts)}
           \cup {result.capped[n].rawCalls[j] : j \in 1..Len(result.capped[n].rawCalls)} :
              n \in 1..Len(result.capped)}

\* C19: every position listed in a returned signal has an expiry and a trade
\* date that are dates, the expiry after the trade date and not before
\* today, a positive number of contracts and a finite premium.
C19_ListedPositionsAreValid ==
    pc = "done" =>
        \A pos \in ListedPositions :
            /\ IsDate(pos.expiry) /\ IsDate(pos.tradeDate)
            /\ pos.expiry[2] > pos.tradeDate[2]
            /\ Time(pos.expiry[2]) > Time(pos.tradeDate[2])
            /\ pos.expiry[2] >= today
            /\ pos.contracts \in Nat \ {0}
            /\ IsNum(pos.originalPremium)

\* A signal is returned for a file that also holds a record of the ticker
\* that expired before today
C19_Witness ==
    /\ pc = "done"
    /\ \E i \in 1..Len(file.all) :
          /\ NamesADay(file.all[i].expiry)
          /\ file.all[i].expiry[2] < today
          /\ TickerKey(file.all[i]) \in OutputTickers
    /\ ListedPositions # {}

\* C20 as stated: every position listed in a returned signal has a strike
\* that is a finite number greater than 0 (so a record whose strike is
\* missing, unparseable, zero or negative is in no signal).
C20_ListedStrikesArePositive ==
    pc = "done" =>
        \A pos \in ListedPositions : IsNum(pos.strike) /\ pos.strike[2] > 0

\* C20: the strike is not validated. The puts a signal lists are the
\* ticker's puts that pass validation whatever their strike, in input
\* order, each with the number its strike parses to (NaN when it is missing
\* or no number), and totalPuts counts the contracts of them all.
C20_StrikeIsNotValidated ==
    pc = "done" =>
        LET Kept(p) == ~FailsValidation(p) /\ IsNum(PremiumOf(p, FALSE))
            kept == SelectSeq(file.all, Kept)
        IN \A n \in 1..Len(result.capped) :
              LET s == result.capped[n]
                  IsPutOfS(p) == ~IsCall(p) /\ TickerKey(p) = s.ticker
                  puts == SelectSeq(kept, IsPutOfS)
              IN /\ Len(s.rawPuts) = Len(puts)
                 /\ \A j \in 1..Len(puts) :
                       s.rawPuts[j].strike
                           = (IF IsNum(puts[j].strike) THEN puts[j].strike ELSE NaN)
                 /\ s.totalPuts = SumOfSeq([j \in 1..Len(puts) |-> puts[j].contracts[2]])

\* A signal that lists a put whose strike is missing and a put whose strike
\* is negative
C20_Witness ==
    /\ pc = "done"
    /\ \E n \in 1..Len(result.capped) :
          \E i, j \in 1..Len(result.capped[n].rawPuts) :
              /\ result.capped[n].rawPuts[i].strike = NaN
              /\ result.capped[n].rawPuts[j].strike = Num(-100)

----------------------------------------------------------------------------
(* The dates of a signal *)

\* The earliest calendar day on which a position of ticker k was traded
EarliestTradeDay(k) ==
    LET days == {TradeDay(i) : i \in ActiveIdx(k)}
    IN CHOOSE d \in days : \A e \in days : d <= e

\* The least whole number of days, and at least 1, that covers the time from
\* local midnight of day d to local midnight of today
DaysSince(d) ==
    LET elapsed == Time(today) - Time(d)
    IN IF elapsed <= HoursPerDay THEN 1
       ELSE CHOOSE c \in 2..400 :
                HoursPerDay * (c - 1) < elapsed /\ elapsed <= HoursPerDay * c

\* C21: for every signal minTradeDate is the earliest trade date over the
\* ticker's puts and calls, and daysActive is max(1, ceil((today -
\* minTradeDate) / 1 day)), so at least 1.
C21_DaysActive ==
    pc = "done" =>
        \A n \in 1..Len(result.capped) :
            LET s == result.capped[n]
            IN /\ s.minTradeDate = <<"date", EarliestTradeDay(s.ticker)>>
               /\ s.daysActive = DaysSince(EarliestTradeDay(s.ticker))
               /\ s.daysActive >= 1

\* A signal whose earliest trade date is after today, with daysActive 1
C21_Witness ==
    /\ pc = "done"
    /\ \E n \in 1..Len(result.capped) :
          /\ result.capped[n].minTradeDate[2] > today
          /\ result.capped[n].daysActive = 1


----------------------------------------------------------------------------
(* The page when no ticker qualifies *)

\* An entry that is a record whose type is missing or a string
IsSound(p) == IF IsNullEntry(p) THEN FALSE ELSE IsNull(p.type) \/ p.type[1] = "str"

\* No ticker of the file passes the eligibility criteria
NoTickerQualifies == LoadSignalsResult(SelectSeq(file.all, IsSound)).qualified = 0

\* C22: when no ticker of the array qualifies, the empty array included,
\* loadSignals does not throw: it returns an empty list with a qualified
\* count of 0 and, as candidate count, the number of tickers having both a
\* put and a call; the page then shows 'No confluence signals found' and no
\* error status.
C22_NoSignalsIsNotAnError ==
    (pc # "loading" /\ file.ok /\ NoTickerQualifies) =>
        /\ pc = "done"
        /\ result.capped = <<>>
        /\ result.qualified = 0
        /\ result.totalCandidates = Cardinality({k \in ActiveTickers : HasPutAndCall(k)})
        /\ grid = [empty |-> NoSignalsText, cards |-> <<>>]
        /\ sigStatus.cls # "error"
        /\ sigStatus.hidden


----------------------------------------------------------------------------
(* Puts and calls *)

\* The type is the string 'call' in some letter case
IsCallInAnyCase(type) ==
    /\ type[1] = "str"
    /\ Len(type[2]) = 4
    /\ type[2][1] \in {"c", "C"}
    /\ type[2][2] \in {"a", "A"}
    /\ type[2][3] \in {"l", "L"}
    /\ type[2][4] \in {"l", "L"}

\* The sum of the contracts of the records at the indices S
RECURSIVE ContractsAt(_)
ContractsAt(S) ==
    IF S = {} THEN 0
    ELSE LET i == CHOOSE j \in S : TRUE
         IN file.all[i].contracts[2] + ContractsAt(S \ {i})

\* C23: a record is grouped as a call exactly when its type is the string
\* 'call' in any letter case, and as a put otherwise, a record without a
\* type (null or undefined) being a put: the puts and the calls of every
\* group, and the counts and the contracts of every signal, are those of
\* the ticker's records so divided.
C23_CallIffTypeIsCall ==
    pc = "done" =>
        LET active == SelectSeq(file.all, IsActive)
            groups == GroupByTicker(active)
            TypedCall(p) == IsCallInAnyCase(p.type)
            TypedPut(p) == ~IsCallInAnyCase(p.type)
        IN /\ \A n \in 1..Len(groups) :
                  LET OfKey(p) == TickerKey(p) = groups[n].key
                      mine == SelectSeq(active, OfKey)
                  IN /\ groups[n].calls = SelectSeq(mine, TypedCall)
                     /\ groups[n].puts = SelectSeq(mine, TypedPut)
                     /\ \A i \in 1..Len(mine) : IsNull(mine[i].type) => TypedPut(mine[i])
           /\ \A n \in 1..Len(result.capped) :
                  LET s == result.capped[n]
                      callsOf == {i \in ActiveIdx(s.ticker) : IsCallInAnyCase(file.all[i].type)}
                      putsOf == ActiveIdx(s.ticker) \ callsOf
                  IN /\ s.callCount = Cardinality(callsOf)
                     /\ s.putCount = Cardinality(putsOf)
                     /\ s.totalCalls = ContractsAt(callsOf)
                     /\ s.totalPuts = ContractsAt(putsOf)

\* A signal of a record without a type, counted as a put, and a record of
\* type 'CALL', counted as a call
C23_Witness ==
    /\ pc = "done"
    /\ Len(file.all) = 2
    /\ file.all[1].type = Null
    /\ file.all[2].type = Str(<<"C", "A", "L", "L">>)
    /\ Len(result.capped) = 1
    /\ result.capped[1].putCount = 1
    /\ result.capped[1].callCount = 1
    /\ result.capped[1].totalPuts = file.all[1].contracts[2]


----------------------------------------------------------------------------
(* The proxy worker keeps the secret *)

\* The secret is configured, and the request is a POST from the allowed
\* origin whose body is JSON
KeyConfigured == env.ANTHROPIC_API_KEY \notin {Null, Str("")}
FromAllowedOrigin == request.origin = Str(ALLOWED_ORIGIN)
MayGoUpstream ==
    /\ request.method = "POST"
    /\ FromAllowedOrigin
    /\ request.body \in ValidJson
    /\ KeyConfigured

\* The status the worker answers a request with that it must not forward
RefusalStatus ==
    CASE request.method = "OPTIONS" -> 204
      [] request.method \notin {"OPTIONS", "POST"} -> 405
      [] request.method = "POST" /\ ~FromAllowedOrigin -> 403
      [] request.method = "POST" /\ FromAllowedOrigin /\ request.body \notin ValidJson -> 400
      [] OTHER -> 500

\* The secret is a piece of the body of the response or one of its headers
ResponseHoldsKey ==
    /\ KeyConfigured
    /\ \/ \E i \in 1..Len(response.body) : response.body[i] = env.ANTHROPIC_API_KEY[2]
       \/ \E h \in DOMAIN response.headers : response.headers[h] = env.ANTHROPIC_API_KEY[2]

\* C24: the worker calls the Anthropic API, with the secret as x-api-key,
\* only for a POST from the allowed origin whose body is JSON while the
\* secret is configured, and then once; it answers every other request
\* without a call upstream, with 204 for OPTIONS, 405 for another method
\* that is no POST, 403 for another origin, 400 for a body that is no JSON
\* and 500 for a missing secret, the first of these that applies; no
\* response holds the secret.
C24_UpstreamOnlyWhenAllowed ==
    /\ Len(upstreamCalls) <= 1
    /\ upstreamCalls # <<>> =>
          /\ MayGoUpstream
          /\ upstreamCalls[1].url = ANTHROPIC_URL
          /\ upstreamCalls[1].headers["x-api-key"] = env.ANTHROPIC_API_KEY[2]
          /\ upstreamCalls[1].body = request.body
    /\ (wpc # "received" /\ MayGoUpstream) => upstreamCalls # <<>>
    /\ (wpc # "received" /\ ~MayGoUpstream) =>
          /\ wpc = "responded"
          /\ upstreamCalls = <<>>
          /\ response.status = RefusalStatus
    /\ wpc = "responded" => ~ResponseHoldsKey

\* A request was forwarded with the secret and answered
C24_Witness ==
    /\ wpc = "responded"
    /\ Len(upstreamCalls) = 1
    /\ upstreamCalls[1].headers["x-api-key"] = SecretKey
    /\ response.status = 200


\* The (put, call) pairs of ticker k whose trade dates are closest in time
ClosestPairs(k) ==
    LET pairs == PutIdx(k) \X CallIdx(k)
        GapOf(pr) == Abs(Time(TradeDay(pr[1])) - Time(TradeDay(pr[2])))
    IN {pr \in pairs : \A other \in pairs : GapOf(pr) <= GapOf(other)}

\* The earlier trade day of a pair
EarlierDay(pr) == IF TradeDay(pr[1]) < TradeDay(pr[2]) THEN TradeDay(pr[1]) ELSE TradeDay(pr[2])

\* C25: the confluenceDate of a signal is the earlier trade date of a put and
\* a call of the ticker whose trade dates are closest, and the earliest such
\* date when several pairs are equally close, whatever the order of the
\* positions in the input.
C25_EarliestOfClosestPairs ==
    pc = "done" =>
        \A n \in 1..Len(result.capped) :
            LET s == result.capped[n]
                closest == ClosestPairs(s.ticker)
            IN /\ \E pr \in closest : s.confluenceDate = <<"date", EarlierDay(pr)>>
               /\ \A pr \in closest : s.confluenceDate[2] <= EarlierDay(pr)


----------------------------------------------------------------------------
(* What loadSignals changes in place *)

\* A signal without its badge
Unbadged(s) == [s EXCEPT !.badge = "none"]

\* The place of the signal of ticker k in the array of the scoring loop
PlaceInLoop(k) == CHOOSE i \in 1..Len(scored) : scored[i].ticker = k

\* C26 as stated: loadSignals leaves the records of the input as they are,
\* the array of scored signals is at the return what the scoring loop left
\* (same objects, same order), and the fields of its objects other than the
\* badge are what they were.
C26_NothingChangedInPlace ==
    /\ [][file' = file]_vars
    /\ [](pc = "done" =>
            /\ Len(ranked) = Len(scored)
            /\ \A n \in 1..Len(ranked) : Unbadged(ranked[n]) = scored[n])

\* C26, amended: loadSignals leaves the records of the input as they are;
\* it sorts the array of scored signals in place, so that at the return the
\* array holds the objects of the scoring loop by descending score, those of
\* equal score in the order of the loop; the objects keep their fields, the
\* first 8 having got a badge and the others none, and the returned list is
\* these first 8.
C26_SortedInPlace ==
    /\ [][file' = file]_vars
    /\ [](pc = "done" =>
            /\ Len(ranked) = Len(scored)
            /\ \A n \in 1..Len(ranked) :
                  /\ \E i \in 1..Len(scored) : scored[i].ticker = ranked[n].ticker
                  /\ Unbadged(ranked[n]) = scored[PlaceInLoop(ranked[n].ticker)]
            /\ \A a, b \in 1..Len(ranked) :
                  a < b => /\ ranked[a].ticker # ranked[b].ticker
                           /\ \/ ranked[a].score > ranked[b].score
                              \/ /\ ranked[a].score = ranked[b].score
                                 /\ PlaceInLoop(ranked[a].ticker) < PlaceInLoop(ranked[b].ticker)
            /\ \A n \in 1..Len(scored) : scored[n].badge = "none"
            /\ \A n \in 1..Len(ranked) : (ranked[n].badge = "none") <=> (n > Cap)
            /\ result.capped = SubSeq(ranked, 1, Min(Cap, Len(ranked))))

\* Three signals whose order the sort has changed
C26_Witness ==
    /\ pc = "done"
    /\ Len(scored) >= 3
    /\ scored[1].score < scored[2].score
    /\ ranked[1].ticker # scored[1].ticker


----------------------------------------------------------------------------
(* The cache of analyses *)

\* Card n starts a call of fetchAiAnalysis in this step
CallStarts(n) == aiCalls[n].stage = "idle" /\ aiCalls'[n].stage # "idle"

\* The call of card n ends in this step, fetchAiAnalysis returning or throwing
CallEnds(n) == aiCalls[n].stage # "settled" /\ aiCalls'[n].stage = "settled"

KeyIsSet == config.ANTHROPIC_KEY \notin {Null, Str(""), PlaceholderKey}

\* C27: aiCache gets an entry only when a call returns a text, the entry
\* being that text for the ticker of the call, and an entry never changes; a
\* call for a ticker with an entry returns the entry and sends no request; a
\* call that fails (signal not found, key not configured, network error,
\* non-JSON or non-OK response, empty text) leaves aiCache as it is, and
\* the next call for its ticker runs the checks again and, the signal being
\* known and the key set, sends a request.
C27_CachesOnlySuccesses ==
    /\ [](\A n \in 1..Len(aiCalls) :
            /\ aiCalls[n].outcome.kind = "return" =>
                  /\ aiCalls[n].ticker \in DOMAIN aiCache
                  /\ aiCache[aiCalls[n].ticker] = aiCalls[n].outcome.value
            /\ aiCalls[n].outcome.kind = "throw" => aiCalls[n].ticker \notin DOMAIN aiCache)
    /\ [][/\ \A k \in DOMAIN aiCache : k \in DOMAIN aiCache' /\ aiCache'[k] = aiCache[k]
          /\ \A n \in 1..Len(aiCalls) :
                /\ (CallEnds(n) /\ aiCalls'[n].outcome.kind = "throw") => aiCache' = aiCache
                /\ (CallEnds(n) /\ aiCalls'[n].outcome.kind = "return") =>
                      /\ DOMAIN aiCache' = DOMAIN aiCache \cup {aiCalls[n].ticker}
                      /\ aiCache'[aiCalls[n].ticker] = aiCalls'[n].outcome.value
                /\ (CallStarts(n) /\ DatasetTicker(n) \in DOMAIN aiCache) =>
                      /\ aiRequests' = aiRequests
                      /\ CallEnds(n)
                      /\ aiCalls'[n].outcome = Return(aiCache[DatasetTicker(n)])
                /\ (CallStarts(n) /\ DatasetTicker(n) \notin DOMAIN aiCache) =>
                      IF DatasetTicker(n) \in signalMap /\ KeyIsSet
                      THEN aiRequests' = Append(aiRequests, DatasetTicker(n))
                      ELSE /\ aiRequests' = aiRequests
                           /\ CallEnds(n)
                           /\ aiCalls'[n].outcome.kind = "throw"
          /\ aiCache' # aiCache =>
                \E n \in 1..Len(aiCalls) : CallEnds(n) /\ aiCalls'[n].outcome.kind = "return"
         ]_vars

\* After a failed request and a request that returned a text, a third call
\* for the ticker has returned the text without a request
C27_Witness ==
    \E n \in 1..Len(aiCalls) :
        /\ aiCalls[n].stage = "settled"
        /\ aiCalls[n].response = NoResponse
        /\ aiCalls[n].outcome.kind = "return"
        /\ aiRequests = <<aiCalls[n].ticker, aiCalls[n].ticker>>


----------------------------------------------------------------------------
(* The states of a card *)

\* A click on the AI button of card n is handled in this step: no call of
\* the card is under way and the card changes
ClickOn(n) == aiCalls[n].stage = "idle" /\ cardEls'[n] # cardEls[n]

\* The click handler of card n resumes after its call in this step
HandlerResumes(n) == aiCalls[n].stage = "settled" /\ aiCalls'[n].stage = "idle"

\* C28: a click on the AI button of a card whose result is shown in state
\* 'done' hides the result and starts no call; any other click puts the card
\* in state 'loading', shown, with the button disabled, and starts a call;
\* when the handler resumes after the call the card is 'done' (the call
\* returned) or 'error' (it threw) and the button is enabled; the button is
\* disabled, and the card 'loading', exactly while the call of the card is
\* under way; a call that has settled leads to a card that is not 'loading'.
C28_CardStates ==
    /\ [](\A n \in 1..Len(cardEls) :
            /\ cardEls[n].disabled <=> aiCalls[n].stage # "idle"
            /\ cardEls[n].state = "loading" <=> aiCalls[n].stage # "idle")
    /\ [][\A n \in 1..Len(cardEls) :
            /\ (Len(cardEls') = Len(cardEls) /\ ClickOn(n) /\ ResultIsShown(n)) =>
                  /\ cardEls'[n] = [cardEls[n] EXCEPT !.hidden = TRUE, !.label = ButtonLabel]
                  /\ aiCalls' = aiCalls
                  /\ aiRequests' = aiRequests
            /\ (Len(cardEls') = Len(cardEls) /\ ClickOn(n) /\ ~ResultIsShown(n)) =>
                  /\ cardEls'[n].state = "loading"
                  /\ cardEls'[n].disabled
                  /\ ~cardEls'[n].hidden
                  /\ aiCalls'[n].stage # "idle"
            /\ (Len(cardEls') = Len(cardEls) /\ HandlerResumes(n)) =>
                  /\ cardEls'[n].state =
                        (IF aiCalls[n].outcome.kind = "return" THEN "done" ELSE "error")
                  /\ ~cardEls'[n].disabled
                  /\ ~cardEls'[n].hidden
         ]_vars
    /\ \A n \in 1..Cap :
          (n \in 1..Len(aiCalls) /\ aiCalls[n].stage = "settled")
              ~> (n \in 1..Len(aiCalls) /\ cardEls[n].state \in {"done", "error"})

\* A card whose result was hidden by a click, and a card showing an error
C28_Witness ==
    \E n, m \in 1..Len(cardEls) :
        /\ cardEls[n].hidden
        /\ cardEls[n].state = "done"
        /\ cardEls[m].state = "error"
        /\ ~cardEls[m].disabled


----------------------------------------------------------------------------
(* The chart page: which ticker is shown, the button and failures *)

\* Call b of load is the last one made for a ticker, and no call is awaiting
\* its fetches
IsLastLoad(b) ==
    /\ loads[b].stage = "ended"
    /\ \A c \in 1..Len(loads) : ~Fetching(c) /\ (c > b => loads[c].stage = "returned")

\* C29: when a call of load for a ticker B began while a call for another
\* ticker A was awaiting its fetches, and both have completed, B being the
\* ticker requested last, then the chart, the sidebar and the status are
\* those of B.
C29_LastRequestedTickerIsShown ==
    \A a, b \in 1..Len(loads) :
        (/\ a \in loads[b].during
         /\ loads[a].ticker # loads[b].ticker
         /\ loads[a].outcome = "ok"
         /\ loads[b].outcome = "ok"
         /\ IsLastLoad(b))
        => /\ chart = [ticker |-> loads[b].ticker, complete |-> TRUE]
           /\ sidebar = <<"positions", loads[b].ticker>>
           /\ appStatus.msg \in {<<>>, <<"No active positions on record for", loads[b].ticker>>}

\* A call of load begins, with a ticker or blank, or ends, in this step
LoadBegins == Len(loads') = Len(loads) + 1
BeginsBlank == LoadBegins /\ loads'[Len(loads')].stage = "returned"
LoadEnds(i) == loads[i].stage = "fetching" /\ loads'[i].stage = "ended"

\* C30: a call of load with a ticker disables the load button before its
\* fetches, and the button is enabled when the call ends, however it ends;
\* when it ends with a failure (of a fetch, for want of price data, or of
\* the building of the chart) the status shows the message with class
\* 'error' and the chart drawn before is still in place; a call with a
\* blank ticker changes neither the button nor the status nor the URL hash.
C30_LoadButtonAndFailure ==
    [][/\ (LoadBegins /\ ~BeginsBlank) => loadBtn'
       /\ BeginsBlank => UNCHANGED <<loadBtn, appStatus, urlHash>>
       /\ \A i \in 1..Len(loads) :
             LoadEnds(i) =>
                 /\ ~loadBtn'
                 /\ loads'[i].outcome # "ok" =>
                       /\ appStatus' = SetStatus(<<loads'[i].outcome, loads[i].ticker>>, "error")
                       /\ chart.complete => chart' = chart
      ]_vars

=============================================================================
